---- MODULE Spec2Model ----
(***************************************************************************)
(* A model of the DKIM core of mail-auth: the header splitter and          *)
(* classifier (src/src/common/headers.rs), the DKIM-Signature tag-list     *)
(* parser (src/src/dkim/parse.rs) and the signer with its header emitter   *)
(* (src/src/dkim/sign.rs).                                                 *)
(*                                                                         *)
(* Bytes are the integers 0..255 and byte slices are sequences of them.    *)
(* Positions are 0-based as in the source: the byte at position p of a     *)
(* slice m is m[p + 1].                                                    *)
(***************************************************************************)
EXTENDS Integers, Sequences, FiniteSets, TLC

VARIABLES
    message,    \* HeaderIterator.message / HeaderParser.message
    hi,         \* HeaderIterator: [pos |-> position of iter, start_pos |-> start_pos]
    hi_items,   \* the items HeaderIterator::next has returned so far, in order
    hi_stop,    \* Some(the HeaderIterator as next() left it when it first returned None)
    hp,         \* HeaderParser: [pos |-> position of iter, start_pos |-> start_pos]
    hp_items,   \* the items HeaderParser::next has returned so far, in order
    cl_name,    \* the recognised header name the message was written from (0: none)
    sp_choice,  \* what the tag list under parse was written from
    sp_header,  \* the tag list handed to the parser (Signature::parse, algorithm, Record::parse)
    sp_result,  \* Some(what the parser returned), None before the call
    sg_signer,  \* Some(the DKIMSigner), None when no signer is set up
    sg_now,     \* the time of signing and of verification (seconds)
    sg_sig,     \* Some(what sign returned), None before the call
    sg_header,  \* Some(the bytes write_header gave for the Signature)
    sg_parsed,  \* Some(what Signature::parse returned for the value of that header)
    sg_verified \* Some(what verify returned for that header put before the message)

splitVars == <<hi, hi_items, hi_stop>>
classVars == <<hp, hp_items, cl_name>>
parseVars == <<sp_choice, sp_header, sp_result>>
signVars == <<sg_signer, sg_now, sg_sig, sg_header, sg_parsed, sg_verified>>
vars ==
    <<message, hi, hi_items, hi_stop, hp, hp_items, cl_name, sp_choice, sp_header, sp_result,
      sg_signer, sg_now, sg_sig, sg_header, sg_parsed, sg_verified>>

----------------------------------------------------------------------------
(* Bytes *)

\* The printable ASCII characters, 0x20..0x7E, in order.
Chars ==
    <<" ", "!", "QUOTE", "#", "$", "%", "&", "'", "(", ")", "*", "+", ",", "-", ".", "/",
      "0", "1", "2", "3", "4", "5", "6", "7", "8", "9", ":", ";", "<", "=", ">", "?",
      "@", "A", "B", "C", "D", "E", "F", "G", "H", "I", "J", "K", "L", "M", "N", "O",
      "P", "Q", "R", "S", "T", "U", "V", "W", "X", "Y", "Z", "[", "BACKSLASH", "]", "^", "_",
      "BACKTICK", "a", "b", "c", "d", "e", "f", "g", "h", "i", "j", "k", "l", "m", "n", "o",
      "p", "q", "r", "s", "t", "u", "v", "w", "x", "y", "z", "{", "|", "}", "~">>

\* The byte of a printable character (b'x' in the source); quote, backslash and backtick go by name.
OrdTable ==
    [ch \in {Chars[i] : i \in 1..Len(Chars)} |-> 31 + CHOOSE i \in 1..Len(Chars) : Chars[i] = ch]

\* The byte of a character.
Ord(ch) == OrdTable[ch]

\* A byte string literal (b"..." in the source), given as its characters.
Str(s) == [i \in 1..Len(s) |-> Ord(s[i])]

HT == 9
LF == 10
CR == 13
SP == 32
COLON == 58

\* m[from..to] of the source: the bytes at positions from .. to - 1.
\* <<>> where slice.get(..) returns None and the source takes unwrap_or_default().
Slice(m, from, to) ==
    IF from <= to /\ to <= Len(m) THEN SubSeq(m, from + 1, to) ELSE <<>>

\* u8::to_ascii_lowercase
Lower(b) == IF b >= 65 /\ b <= 90 THEN b + 32 ELSE b

LowerSeq(s) == [i \in 1..Len(s) |-> Lower(s[i])]

\* <[u8]>::eq_ignore_ascii_case
EqIgnoreAsciiCase(x, y) == LowerSeq(x) = LowerSeq(y)

\* White space that leaves out the tab.
IsAsciiWhitespaceButTab(b) == b \in {SP, LF, 12, CR}

\* u8::is_ascii_whitespace: space, tab, LF, form feed, CR
IsAsciiWhitespace(b) == b \in {SP, HT, LF, 12, CR}

RECURSIVE Concat(_)
Concat(ss) == IF ss = <<>> THEN <<>> ELSE Head(ss) \o Concat(Tail(ss))

\* All sequences over the alphabet of length at most n.
RECURSIVE SeqsUpTo(_, _)
SeqsUpTo(alphabet, n) ==
    IF n = 0 THEN {<<>>}
    ELSE LET shorter == SeqsUpTo(alphabet, n - 1)
         IN shorter \cup {Append(w, b) : w \in {u \in shorter : Len(u) = n - 1}, b \in alphabet}

\* The element of a set of one element. The({e : x \in {v}}) is e with x bound to
\* the value of v: v is computed once, however often e uses x.
The(set) == CHOOSE e \in set : TRUE

\* A loop over the positions first..last in order: Op(st, p) is the loop body run
\* at position p in state st. (Split in halves so that long inputs do not nest.)
RECURSIVE FoldRange(_, _, _, _)
FoldRange(Op(_, _), st, first, last) ==
    The({IF f > l THEN s
         ELSE IF f = l THEN Op(s, f)
         ELSE The({FoldRange(Op, left, (f + l) \div 2 + 1, l) :
                      left \in {FoldRange(Op, s, f, (f + l) \div 2)}}) :
         s \in {st}, f \in {first}, l \in {last}})

\* Option<T>: None, or Some(x)
None == <<>>

Some(x) == <<x>>

\* The x of Some(x)
Unwrap(o) == o[1]

----------------------------------------------------------------------------
(* HeaderIterator, src/src/common/headers.rs *)

\* colon_pos = usize::MAX
NoColon == -1

\* A splitter that takes every LF for the end of a header (no continuation lines).
NextIsNotWspNoFolding(m, pos) == TRUE

\* self.iter.peek().map_or(true, |(_, next_byte)| ![b' ', b'\t'].contains(next_byte))
\* evaluated after the byte at pos has been taken from the iterator.
NextIsNotWsp(m, pos) == pos + 1 >= Len(m) \/ m[pos + 2] \notin {SP, HT}

\* What one call of next() returns and where it leaves the iterator:
\* item is None or Some([name, value, off]) (off: where the name slice starts in message).
IterResult(item, pos, start_pos) == [item |-> item, pos |-> pos, start_pos |-> start_pos]

\* The locals of next() as a call starts: colon_pos = usize::MAX, last_ch = 0.
\* done: the call has returned item; pos: the position of self.iter.
IterLocals(it) ==
    [done |-> FALSE, item |-> None, pos |-> it.pos, start_pos |-> it.start_pos,
     colon_pos |-> NoColon, last_ch |-> 0]

\* `return item` after the byte at pos, with self.start_pos = start_pos.
IterReturn(st, item, pos, start_pos) ==
    [st EXCEPT !.done = TRUE, !.item = item, !.pos = pos + 1, !.start_pos = start_pos]

\* The end of the loop body, `last_ch = ch` (line 113), after the byte at pos.
IterContinue(st, ch, pos) == [st EXCEPT !.last_ch = ch, !.pos = pos + 1]

\* A splitter that leaves the colon at the end of the name.
HeaderItemWithColon(m, start_pos, colon_pos, pos) ==
    [name |-> Slice(m, start_pos, colon_pos + 1),
     value |-> Slice(m, colon_pos + 1, pos + 1),
     off |-> start_pos]

\* The (name, value) slices of a header with a colon (lines 102-110).
HeaderItem(m, start_pos, colon_pos, pos) ==
    [name |-> Slice(m, start_pos, colon_pos),
     value |-> Slice(m, colon_pos + 1, pos + 1),
     off |-> start_pos]

\* The item for a line without a colon (lines 86-91).
InvalidItem(m, start_pos, pos) ==
    [name |-> Slice(m, start_pos, pos + 1), value |-> <<>>, off |-> start_pos]

\* `last_ch == b'\r' || self.start_pos == pos` (line 77): the LF ends the headers.
EndOfHeaders(last_ch, start_pos, pos) == last_ch = CR \/ start_pos = pos

\* The body of the while loop of HeaderIterator::next for the byte at pos.
HeaderIteratorStep(m, st, pos) ==
    IF st.done THEN st
    ELSE LET ch == m[pos + 1] IN
         IF st.colon_pos = NoColon THEN
            IF ch = COLON THEN IterContinue([st EXCEPT !.colon_pos = pos], ch, pos)
            ELSE IF ch = LF THEN
               IF EndOfHeaders(st.last_ch, st.start_pos, pos)
               THEN IterReturn(st, None, pos, st.start_pos)
               ELSE IF NextIsNotWsp(m, pos)
               THEN IterReturn(st, Some(InvalidItem(m, st.start_pos, pos)), pos, pos + 1)
               ELSE IterContinue(st, ch, pos)
            ELSE IterContinue(st, ch, pos)
         ELSE IF ch = LF /\ NextIsNotWsp(m, pos)
         THEN IterReturn(st, Some(HeaderItem(m, st.start_pos, st.colon_pos, pos)), pos, pos + 1)
         ELSE IterContinue(st, ch, pos)

\* HeaderIterator::next: the loop runs over the bytes left in self.iter; when
\* they run out, the call returns None (line 116).
HeaderIteratorNextResult(m, it) ==
    LET Body(st, pos) == HeaderIteratorStep(m, st, pos)
    IN The({IterResult(end.item, end.pos, end.start_pos) :
            end \in {FoldRange(Body, IterLocals(it), it.pos, Len(m) - 1)}})

\* HeaderIterator::body_offset: the position of the next byte of iter, if any.
BodyOffset(m, it) == IF it.pos < Len(m) THEN Some(it.pos) ELSE None

\* HeaderIterator::new
HeaderIteratorNew == [pos |-> 0, start_pos |-> 0]

\* One call of next() on the iterator.
HeaderIteratorNext ==
    LET r == HeaderIteratorNextResult(message, hi) IN
    /\ hi' = [pos |-> r.pos, start_pos |-> r.start_pos]
    /\ hi_items' = IF r.item = None THEN hi_items ELSE Append(hi_items, Unwrap(r.item))
    /\ hi_stop' = IF r.item = None /\ hi_stop = None THEN Some(hi') ELSE hi_stop
    /\ UNCHANGED <<message, classVars, parseVars, signVars>>

----------------------------------------------------------------------------
(* HeaderParser, src/src/common/headers.rs *)

\* The bits of a byte, least significant first, and back.
Bits(b) == [i \in 1..8 |-> (b \div (2 ^ (i - 1))) % 2]

FromBits(bs) ==
    bs[1] + 2 * bs[2] + 4 * bs[3] + 8 * bs[4] + 16 * bs[5] + 32 * bs[6] + 64 * bs[7] + 128 * bs[8]

\* a | b on bytes
ByteOr(a, b) == FromBits([i \in 1..8 |-> IF Bits(a)[i] = 1 \/ Bits(b)[i] = 1 THEN 1 ELSE 0])

\* A u64 is kept as its eight bytes, least significant first.
U64Zero == <<0, 0, 0, 0, 0, 0, 0, 0>>

\* u64::MAX
U64Max == <<255, 255, 255, 255, 255, 255, 255, 255>>

\* hash |= (ch as u64) << hash_shift, for hash_shift in {0, 8, .., 56}
OrShifted(hash, ch, hash_shift) ==
    [hash EXCEPT ![(hash_shift \div 8) + 1] = ByteOr(@, ch)]

\* The u64 whose low bytes are the bytes of s (the constants at lines 237-269).
Packed(s) == [i \in 1..8 |-> IF i <= Len(s) THEN s[i] ELSE 0]

FROM == Packed(Str(<<"f", "r", "o", "m">>))
DKIM == Packed(Str(<<"d", "k", "i", "m", "-", "s", "i", "g">>))
AAR == Packed(Str(<<"a", "r", "c", "-", "a", "u", "t", "h">>))
AMS == Packed(Str(<<"a", "r", "c", "-", "m", "e", "s", "s">>))
AS == Packed(Str(<<"a", "r", "c", "-", "s", "e", "a", "l">>))

\* usize::MAX of token_start and token_end
NoToken == -1

\* The locals of HeaderParser::next that classify the name.
TokenNew == [token_start |-> NoToken, token_end |-> NoToken, hash |-> U64Zero, hash_shift |-> 0]

\* Lines 158-179: a letter or '-' of the name; lc is the byte in lower case.
TokenPush(tok, lc, pos) ==
    IF tok.hash_shift < 64
    THEN [token_start |-> IF tok.token_start = NoToken THEN pos ELSE tok.token_start,
          token_end |-> pos,
          hash |-> OrShifted(tok.hash, lc, tok.hash_shift),
          hash_shift |-> tok.hash_shift + 8]
    ELSE [tok EXCEPT !.token_end = pos]

\* Lines 157-182: a byte of the name other than ':' and LF.
TokenByte(tok, ch, pos) ==
    IF ch \in {SP, HT, CR} THEN tok
    ELSE IF ch >= 65 /\ ch <= 90 THEN TokenPush(tok, ch - 65 + 97, pos)
    ELSE IF (ch >= 97 /\ ch <= 122) \/ ch = Ord("-") THEN TokenPush(tok, ch, pos)
    ELSE [tok EXCEPT !.hash = U64Max]

\* self.message.get(token_start + 8..token_end + 1).unwrap_or_default()
TokenTail(m, tok) == Slice(m, tok.token_start + 8, tok.token_end + 1)

\* Lines 195-223: the variant chosen by the hash and the rest of the name.
Classify(m, tok) ==
    IF tok.hash = FROM THEN "From"
    ELSE IF tok.hash = AS THEN "As"
    ELSE IF tok.hash = AAR
            /\ EqIgnoreAsciiCase(TokenTail(m, tok),
                   Str(<<"e", "n", "t", "i", "c", "a", "t", "i", "o", "n", "-",
                         "R", "e", "s", "u", "l", "t", "s">>))
    THEN "Aar"
    ELSE IF tok.hash = AMS
            /\ EqIgnoreAsciiCase(TokenTail(m, tok),
                   Str(<<"a", "g", "e", "-", "S", "i", "g", "n", "a", "t", "u", "r", "e">>))
    THEN "Ams"
    ELSE IF tok.hash = DKIM
            /\ EqIgnoreAsciiCase(TokenTail(m, tok), Str(<<"n", "a", "t", "u", "r", "e">>))
    THEN "Ds"
    ELSE "Other"

\* The item of a header with a colon: AuthenticatedHeader::<header>(name), value.
ParsedItem(m, start_pos, colon_pos, pos, tok) ==
    [header |-> Classify(m, tok),
     name |-> Slice(m, start_pos, colon_pos),
     value |-> Slice(m, colon_pos + 1, pos + 1),
     off |-> start_pos]

\* The same with the LF of the line left out of the name.
InvalidParsedItemWithoutLf(m, start_pos, pos) ==
    [header |-> "Other", name |-> Slice(m, start_pos, pos), value |-> <<>>,
     off |-> start_pos]

\* Lines 149-154: AuthenticatedHeader::Other(line), b""
InvalidParsedItem(m, start_pos, pos) ==
    [header |-> "Other", name |-> Slice(m, start_pos, pos + 1), value |-> <<>>,
     off |-> start_pos]

\* The body of the while loop of HeaderParser::next for the byte at pos.
HeaderParserStep(m, st, pos) ==
    IF st.done THEN st
    ELSE LET ch == m[pos + 1] IN
         IF st.colon_pos = NoColon THEN
            IF ch = COLON THEN IterContinue([st EXCEPT !.colon_pos = pos], ch, pos)
            ELSE IF ch = LF THEN
               IF EndOfHeaders(st.last_ch, st.start_pos, pos)
               THEN IterReturn(st, None, pos, st.start_pos)
               ELSE IF NextIsNotWsp(m, pos)
               THEN IterReturn(st, Some(InvalidParsedItem(m, st.start_pos, pos)), pos, pos + 1)
               ELSE IterContinue(st, ch, pos)
            ELSE IterContinue([st EXCEPT !.tok = TokenByte(@, ch, pos)], ch, pos)
         ELSE IF ch = LF /\ NextIsNotWsp(m, pos)
         THEN IterReturn(st,
                         Some(ParsedItem(m, st.start_pos, st.colon_pos, pos, st.tok)),
                         pos, pos + 1)
         ELSE IterContinue(st, ch, pos)

\* The locals of HeaderParser::next as a call starts.
ParserLocals(it) ==
    [done |-> FALSE, item |-> None, pos |-> it.pos, start_pos |-> it.start_pos,
     colon_pos |-> NoColon, last_ch |-> 0, tok |-> TokenNew]

\* HeaderParser::next
HeaderParserNextResult(m, it) ==
    LET Body(st, pos) == HeaderParserStep(m, st, pos)
        end == FoldRange(Body, ParserLocals(it), it.pos, Len(m) - 1)
    IN IterResult(end.item, end.pos, end.start_pos)

\* HeaderParser::new
HeaderParserNew == [pos |-> 0, start_pos |-> 0]

\* One call of next() on the parser.
HeaderParserNext ==
    LET r == HeaderParserNextResult(message, hp) IN
    /\ hp' = [pos |-> r.pos, start_pos |-> r.start_pos]
    /\ hp_items' = IF r.item = None THEN hp_items ELSE Append(hp_items, Unwrap(r.item))
    /\ UNCHANGED <<message, cl_name, splitVars, parseVars, signVars>>

----------------------------------------------------------------------------
(* The tag-list cursor, crate::common::parse (spec section 4.3).             *)
(* A cursor is the header value h and a position pos: the bytes from pos on  *)
(* are those left in the Iter<u8>. Every operation returns the position it   *)
(* leaves the cursor at.                                                     *)

SEMI == 59
EQUALS == 61

\* The smallest position p >= pos of h with byte b, or Len(h) when there is none.
Find(h, pos, b) ==
    IF \E p \in pos..(Len(h) - 1) : h[p + 1] = b
    THEN CHOOSE p \in pos..(Len(h) - 1) :
            h[p + 1] = b /\ \A q \in pos..(p - 1) : h[q + 1] # b
    ELSE Len(h)

\* The position after the ';' that ends the tag value starting at pos (or the end).
AfterTag(h, pos) == LET e == Find(h, pos, SEMI) IN IF e < Len(h) THEN e + 1 ELSE e

NotWhitespace(b) == ~IsAsciiWhitespace(b)

\* The bytes of s that are not white space.
StripWhitespace(s) == SelectSeq(s, NotWhitespace)

\* The tag value starting at pos, up to the next ';' or the end, as it stands.
RawTag(h, pos) == Slice(h, pos, Find(h, pos, SEMI))

IsLetter(b) == (b >= 65 /\ b <= 90) \/ (b >= 97 /\ b <= 122)

IsDigit(b) == b >= 48 /\ b <= 57

\* The position of the last ';' of h in from..(to - 1), or from - 1.
LastSemiBefore(h, from, to) ==
    IF \E p \in from..(to - 1) : h[p + 1] = SEMI
    THEN CHOOSE p \in from..(to - 1) :
            h[p + 1] = SEMI /\ \A q \in (p + 1)..(to - 1) : h[q + 1] # SEMI
    ELSE from - 1

\* A key that is none of the known tags (a byte other than a letter in it).
UnknownKey == <<255>>

\* key(): the next tag name, in lower case and without white space, up to its
\* '='; a ';' on the way starts the name afresh. None at the end of the input.
\* The packed integer of the source is kept as the bytes it packs.
Key(h, pos) ==
    LET e == Find(h, pos, EQUALS) IN
    IF e = Len(h) THEN [key |-> None, pos |-> Len(h)]
    ELSE LET from == LastSemiBefore(h, pos, e) + 1
             name == StripWhitespace(Slice(h, from, e))
         IN [key |-> Some(IF \A k \in 1..Len(name) : IsLetter(name[k])
                          THEN LowerSeq(SubSeq(name, 1, IF Len(name) < 8 THEN Len(name) ELSE 8))
                          ELSE UnknownKey),
             pos |-> e + 1]

V == Str(<<"v">>)
A == Str(<<"a">>)
B == Str(<<"b">>)
BH == Str(<<"b", "h">>)
C == Str(<<"c">>)
D == Str(<<"d">>)
H == Str(<<"h">>)
I == Str(<<"i">>)
L == Str(<<"l">>)
S == Str(<<"s">>)
T == Str(<<"t">>)
X == Str(<<"x">>)
Z == Str(<<"z">>)

\* tag(): the value up to the next ';' with its white space removed.
Tag(h, pos) == [val |-> StripWhitespace(RawTag(h, pos)), pos |-> AfterTag(h, pos)]

\* ignore(): skip the value of a tag that is not known.
Ignore(h, pos) == AfterTag(h, pos)

IsHex(b) == IsDigit(b) \/ (b >= 65 /\ b <= 70) \/ (b >= 97 /\ b <= 102)

HexVal(b) == IF IsDigit(b) THEN b - 48 ELSE IF b >= 97 THEN b - 97 + 10 ELSE b - 65 + 10

\* The quoted-printable decoding of s: every "=XX" with XX two hex digits is
\* the byte XX; every other byte stands for itself.
QpDecodeStep(s, st, k) ==
    IF k < st.next THEN st
    ELSE IF s[k] = EQUALS /\ k + 2 <= Len(s) /\ IsHex(s[k + 1]) /\ IsHex(s[k + 2])
    THEN [out |-> Append(st.out, 16 * HexVal(s[k + 1]) + HexVal(s[k + 2])), next |-> k + 3]
    ELSE [out |-> Append(st.out, s[k]), next |-> k + 1]

QpDecode(s) ==
    LET Body(st, k) == QpDecodeStep(s, st, k)
    IN FoldRange(Body, [out |-> <<>>, next |-> 1], 1, Len(s)).out

\* tag_qp(): as tag(), with "=XX" decoded.
TagQp(h, pos) == [val |-> QpDecode(StripWhitespace(RawTag(h, pos))), pos |-> AfterTag(h, pos)]

\* The pieces of s between the bytes sep, in order.
SplitOn(s, sep) ==
    LET at == SelectSeq([k \in 1..Len(s) |-> IF s[k] = sep THEN k ELSE 0],
                        LAMBDA k : k # 0)
        cuts == <<0>> \o at \o <<Len(s) + 1>>
    IN [n \in 1..(Len(cuts) - 1) |-> SubSeq(s, cuts[n] + 1, cuts[n + 1] - 1)]

NotEmpty(s) == s # <<>>

\* items(): the colon-separated items of the value, white space removed,
\* empty items dropped (the names keep their case: test::dkim_signature_parse).
Items(h, pos) ==
    LET pieces == SplitOn(RawTag(h, pos), COLON)
    IN [val |-> SelectSeq([n \in 1..Len(pieces) |-> StripWhitespace(pieces[n])], NotEmpty),
        pos |-> AfterTag(h, pos)]

PIPE == 124

\* headers_qp(): the '|'-separated items of the value, white space removed,
\* each quoted-printable decoded.
HeadersQp(h, pos) ==
    LET pieces == SplitOn(RawTag(h, pos), PIPE)
        kept == SelectSeq([n \in 1..Len(pieces) |-> StripWhitespace(pieces[n])], NotEmpty)
    IN [val |-> [n \in 1..Len(kept) |-> QpDecode(kept[n])], pos |-> AfterTag(h, pos)]

\* The number written by the decimal digits ds.
RECURSIVE Decimal(_)
Decimal(ds) ==
    IF ds = <<>> THEN 0
    ELSE 10 * Decimal(SubSeq(ds, 1, Len(ds) - 1)) + (ds[Len(ds)] - 48)

\* number(): the decimal number of the value, white space allowed anywhere;
\* None when the value has no digit or holds another byte (the cursor then
\* stays after that byte).
Number(h, pos) ==
    LET raw == RawTag(h, pos)
        bad == {k \in 1..Len(raw) : ~IsDigit(raw[k]) /\ IsAsciiWhitespace(raw[k]) = FALSE}
        digits == SelectSeq(raw, IsDigit)
    IN IF bad # {}
       THEN [val |-> None, pos |-> pos + (CHOOSE k \in bad : \A j \in bad : k <= j)]
       ELSE [val |-> IF digits = <<>> THEN None ELSE Some(Decimal(digits)),
             pos |-> AfterTag(h, pos)]

\* Option::unwrap_or
UnwrapOr(o, default) == IF o = None THEN default ELSE Unwrap(o)

\* next_skip_whitespaces(): the next byte that is not white space, consumed.
NextSkipWhitespaces(h, pos) ==
    IF \E p \in pos..(Len(h) - 1) : NotWhitespace(h[p + 1])
    THEN LET p == CHOOSE p \in pos..(Len(h) - 1) :
                     NotWhitespace(h[p + 1]) /\ \A q \in pos..(p - 1) : IsAsciiWhitespace(h[q + 1])
         IN [val |-> Some(h[p + 1]), pos |-> p + 1]
    ELSE [val |-> None, pos |-> Len(h)]

\* match_bytes(literal): each byte of the literal in turn is matched, without
\* regard to case, against the next byte that is not white space.
RECURSIVE MatchBytes(_, _, _)
MatchBytes(h, pos, literal) ==
    IF literal = <<>> THEN [ok |-> TRUE, pos |-> pos]
    ELSE LET n == NextSkipWhitespaces(h, pos) IN
         IF n.val # None /\ Lower(Unwrap(n.val)) = Lower(Head(literal))
         THEN MatchBytes(h, n.pos, Tail(literal))
         ELSE [ok |-> FALSE, pos |-> n.pos]

\* seek_tag_end(): white space, then the ';' that ends the tag or the end of input.
SeekTagEnd(h, pos) ==
    LET n == NextSkipWhitespaces(h, pos)
    IN [ok |-> n.val = None \/ n.val = Some(SEMI), pos |-> n.pos]

----------------------------------------------------------------------------
(* Base64, mail_parser::decoders::base64 and mail_builder::encoders::base64 *)

\* The value of a character of the base64 alphabet, -1 for any other byte.
Base64Val(b) ==
    IF b >= 65 /\ b <= 90 THEN b - 65
    ELSE IF b >= 97 /\ b <= 122 THEN b - 97 + 26
    ELSE IF IsDigit(b) THEN b - 48 + 52
    ELSE IF b = 43 THEN 62
    ELSE IF b = 47 THEN 63
    ELSE -1

\* The bytes that the sextets vs stand for: three for every four sextets, and
\* one or two for two or three sextets left at the end.
SextetsToBytes(vs) ==
    LET n == Len(vs)
        outLen == 3 * (n \div 4) + (IF n % 4 = 2 THEN 1 ELSE IF n % 4 = 3 THEN 2 ELSE 0)
        At(k) == IF k <= n THEN vs[k] ELSE 0
    IN [j \in 1..outLen |->
          LET g == 4 * ((j - 1) \div 3)
          IN CASE (j - 1) % 3 = 0 -> 4 * At(g + 1) + (At(g + 2) \div 16)
               [] (j - 1) % 3 = 1 -> 16 * (At(g + 2) % 16) + (At(g + 3) \div 4)
               [] OTHER -> 64 * (At(g + 3) % 4) + At(g + 4)]

NotPadding(b) == b # EQUALS

\* base64_decode(text): None when a byte is neither of the alphabet nor '='.
Base64Decode(text) ==
    LET chars == SelectSeq(text, NotPadding) IN
    IF \E k \in 1..Len(chars) : Base64Val(chars[k]) < 0 THEN None
    ELSE Some(SextetsToBytes([k \in 1..Len(chars) |-> Base64Val(chars[k])]))

\* base64_decode_stream(iter, len, b';'): decodes up to the stop byte, which
\* it consumes, skipping white space; None on a byte outside the alphabet.
Base64DecodeStream(h, pos) ==
    [val |-> Base64Decode(StripWhitespace(RawTag(h, pos))), pos |-> AfterTag(h, pos)]

\* The character of a sextet.
Base64Char(v) ==
    IF v < 26 THEN 65 + v
    ELSE IF v < 52 THEN 97 + (v - 26)
    ELSE IF v < 62 THEN 48 + (v - 52)
    ELSE IF v = 62 THEN 43
    ELSE 47

\* base64_encode(bytes): four characters for every three bytes, '=' padded.
Base64Encode(bytes) ==
    LET n == Len(bytes)
        At(k) == IF k <= n THEN bytes[k] ELSE 0
    IN [j \in 1..(4 * ((n + 2) \div 3)) |->
          LET g == 3 * ((j - 1) \div 4)
              k == (j - 1) % 4
          IN IF (k = 2 /\ g + 2 > n) \/ (k = 3 /\ g + 3 > n) THEN EQUALS
             ELSE Base64Char(
                    CASE k = 0 -> At(g + 1) \div 4
                      [] k = 1 -> 16 * (At(g + 1) % 4) + (At(g + 2) \div 16)
                      [] k = 2 -> 4 * (At(g + 2) % 16) + (At(g + 3) \div 64)
                      [] OTHER -> At(g + 3) % 64)]

----------------------------------------------------------------------------
(* Signature::parse, src/dkim/parse.rs *)

\* Result<T>: Ok(value) or Err(error).
Ok(value) == [ok |-> TRUE, val |-> value]
Err(error) == [ok |-> FALSE, err |-> error]

SLASH == 47

\* One turn of the loop of canonicalization() on the byte at position p; the
\* bytes that match_bytes has consumed are passed over.
CanonicalizationStep(h, st, p) ==
    IF st.done \/ p < st.pos THEN st
    ELSE LET char == h[p + 1] IN
         IF char \in {Ord("s"), Ord("S")} /\ st.c = None
         THEN LET m == MatchBytes(h, p + 1, Str(<<"i", "m", "p", "l", "e">>))
              IN IF m.ok THEN [st EXCEPT !.c = Some("Simple"), !.pos = m.pos]
                 ELSE [st EXCEPT !.err = TRUE, !.done = TRUE, !.pos = m.pos]
         ELSE IF char \in {Ord("r"), Ord("R")} /\ st.c = None
         THEN LET m == MatchBytes(h, p + 1, Str(<<"e", "l", "a", "x", "e", "d">>))
              IN IF m.ok THEN [st EXCEPT !.c = Some("Relaxed"), !.pos = m.pos]
                 ELSE [st EXCEPT !.err = TRUE, !.done = TRUE, !.pos = m.pos]
         ELSE IF char = SLASH /\ st.c # None
         THEN [st EXCEPT !.ch = Unwrap(st.c), !.c = None, !.has_header = TRUE, !.pos = p + 1]
         ELSE IF char = SEMI
         THEN [st EXCEPT !.done = TRUE, !.pos = p + 1]
         ELSE IF ~IsAsciiWhitespace(char)
         THEN [st EXCEPT !.err = TRUE, !.done = TRUE, !.pos = p + 1]
         ELSE [st EXCEPT !.pos = p + 1]

\* The body simple whatever c= says after the slash.
CanonicalizationResultHeaderOnly(st, default) ==
    [ch |-> IF st.c # None /\ ~st.has_header THEN Unwrap(st.c) ELSE st.ch, cb |-> default]

CanonicalizationResult(st, default) ==
    [ch |-> IF st.c # None /\ ~st.has_header THEN Unwrap(st.c) ELSE st.ch,
     cb |-> IF st.c # None /\ st.has_header THEN Unwrap(st.c) ELSE default]

\* canonicalization(default): Ok((ch, cb)) or Err(UnsupportedCanonicalization),
\* with the position the cursor is left at.
Canonicalization(h, pos, default) ==
    LET Turn(st, p) == CanonicalizationStep(h, st, p)
        st == FoldRange(Turn,
                        [pos |-> pos, c |-> None, ch |-> default, has_header |-> FALSE,
                         err |-> FALSE, done |-> FALSE],
                        pos, Len(h) - 1)
    IN [res |-> IF st.err THEN Err("UnsupportedCanonicalization")
                ELSE Ok(CanonicalizationResult(st, default)),
        pos |-> st.pos]

\* The loop with the digit 1 taken whatever digits came before it.
AlgorithmStepOneAnywhere(h, st, p) ==
    IF st.done THEN st
    ELSE LET ch == h[p + 1] IN
         IF ch = Ord("1") THEN [st EXCEPT !.algo = 1, !.pos = p + 1]
         ELSE IF ch = Ord("2") /\ st.algo = 0 THEN [st EXCEPT !.algo = 2, !.pos = p + 1]
         ELSE IF ch = Ord("5") /\ st.algo = 2 THEN [st EXCEPT !.algo = 25, !.pos = p + 1]
         ELSE IF ch = Ord("6") /\ st.algo = 25 THEN [st EXCEPT !.algo = 256, !.pos = p + 1]
         ELSE IF ch = SEMI THEN [st EXCEPT !.done = TRUE, !.pos = p + 1]
         ELSE IF ~IsAsciiWhitespace(ch) THEN [st EXCEPT !.err = TRUE, !.done = TRUE, !.pos = p + 1]
         ELSE [st EXCEPT !.pos = p + 1]

\* One turn of the loop over the digits of "rsa-sha<digits>".
AlgorithmStep(h, st, p) ==
    IF st.done THEN st
    ELSE LET ch == h[p + 1] IN
         IF ch = Ord("1") /\ st.algo = 0 THEN [st EXCEPT !.algo = 1, !.pos = p + 1]
         ELSE IF ch = Ord("2") /\ st.algo = 0 THEN [st EXCEPT !.algo = 2, !.pos = p + 1]
         ELSE IF ch = Ord("5") /\ st.algo = 2 THEN [st EXCEPT !.algo = 25, !.pos = p + 1]
         ELSE IF ch = Ord("6") /\ st.algo = 25 THEN [st EXCEPT !.algo = 256, !.pos = p + 1]
         ELSE IF ch = SEMI THEN [st EXCEPT !.done = TRUE, !.pos = p + 1]
         ELSE IF ~IsAsciiWhitespace(ch) THEN [st EXCEPT !.err = TRUE, !.done = TRUE, !.pos = p + 1]
         ELSE [st EXCEPT !.pos = p + 1]

\* algorithm(): Ok(algorithm) or Err(UnsupportedAlgorithm).
Algorithm(h, pos) ==
    LET first == NextSkipWhitespaces(h, pos)
        byte == UnwrapOr(first.val, 0)
    IN IF byte \in {Ord("r"), Ord("R")}
       THEN LET m == MatchBytes(h, first.pos, Str(<<"s", "a", "-", "s", "h", "a">>)) IN
            IF m.ok
            THEN LET Turn(st, p) == AlgorithmStep(h, st, p)
                     st == FoldRange(Turn, [pos |-> m.pos, algo |-> 0, err |-> FALSE, done |-> FALSE],
                                     m.pos, Len(h) - 1)
                 IN [res |-> IF st.err THEN Err("UnsupportedAlgorithm")
                             ELSE IF st.algo = 256 THEN Ok("RsaSha256")
                             ELSE IF st.algo = 1 THEN Ok("RsaSha1")
                             ELSE Err("UnsupportedAlgorithm"),
                     pos |-> st.pos]
            ELSE [res |-> Err("UnsupportedAlgorithm"), pos |-> m.pos]
       ELSE IF byte \in {Ord("e"), Ord("E")}
       THEN LET m == MatchBytes(h, first.pos,
                                Str(<<"d", "2", "5", "5", "1", "9", "-", "s", "h", "a", "2", "5", "6">>))
                e == IF m.ok THEN SeekTagEnd(h, m.pos) ELSE m
            IN [res |-> IF e.ok THEN Ok("Ed25519Sha256") ELSE Err("UnsupportedAlgorithm"),
                pos |-> e.pos]
       ELSE [res |-> Err("UnsupportedAlgorithm"), pos |-> first.pos]

\* The Signature that parse starts from.
SignatureNew ==
    [v |-> 0, a |-> "RsaSha256", d |-> <<>>, s |-> <<>>, i |-> <<>>, b |-> <<>>, bh |-> <<>>,
     h |-> <<>>, z |-> <<>>, l |-> 0, x |-> 0, t |-> 0, ch |-> "Simple", cb |-> "Simple"]

\* "as u32" of a number below 2^31, which every number of this model is.
AsU32(n) == n

\* The tag has been read: go on after it.
TagRead(st, sig, pos) == [st EXCEPT !.sig = sig, !.pos = pos]

\* return Err(error)
TagFailed(st, error, pos) == [st EXCEPT !.done = TRUE, !.err = Some(error), !.pos = pos]

\* One turn of "while let Some(key) = header.key()".
SignatureParseStep(h, st, turn) ==
    IF st.done THEN st
    ELSE The({
         IF k.key = None THEN [st EXCEPT !.done = TRUE, !.pos = k.pos]
         ELSE LET key == Unwrap(k.key)
                  sig == st.sig
              IN
              IF key = V
              THEN The({IF AsU32(UnwrapOr(n.val, 0)) # 1
                        THEN TagFailed(TagRead(st, [sig EXCEPT !.v = AsU32(UnwrapOr(n.val, 0))],
                                               n.pos),
                                       "UnsupportedVersion", n.pos)
                        ELSE TagRead(st, [sig EXCEPT !.v = AsU32(UnwrapOr(n.val, 0))], n.pos) :
                        n \in {Number(h, k.pos)}})
              ELSE IF key = A
              THEN The({IF r.res.ok THEN TagRead(st, [sig EXCEPT !.a = r.res.val], r.pos)
                        ELSE TagFailed(st, r.res.err, r.pos) :
                        r \in {Algorithm(h, k.pos)}})
              ELSE IF key = B
              THEN The({IF r.val # None THEN TagRead(st, [sig EXCEPT !.b = Unwrap(r.val)], r.pos)
                        ELSE TagFailed(st, "Base64", r.pos) :
                        r \in {Base64DecodeStream(h, k.pos)}})
              ELSE IF key = BH
              THEN The({IF r.val # None THEN TagRead(st, [sig EXCEPT !.bh = Unwrap(r.val)], r.pos)
                        ELSE TagFailed(st, "Base64", r.pos) :
                        r \in {Base64DecodeStream(h, k.pos)}})
              ELSE IF key = C
              THEN The({IF r.res.ok
                        THEN TagRead(st, [sig EXCEPT !.ch = r.res.val.ch, !.cb = r.res.val.cb],
                                     r.pos)
                        ELSE TagFailed(st, r.res.err, r.pos) :
                        r \in {Canonicalization(h, k.pos, "Simple")}})
              ELSE IF key = D
              THEN The({TagRead(st, [sig EXCEPT !.d = r.val], r.pos) : r \in {Tag(h, k.pos)}})
              ELSE IF key = H
              THEN The({TagRead(st, [sig EXCEPT !.h = r.val], r.pos) : r \in {Items(h, k.pos)}})
              ELSE IF key = I
              THEN The({TagRead(st, [sig EXCEPT !.i = r.val], r.pos) : r \in {TagQp(h, k.pos)}})
              ELSE IF key = L
              THEN The({TagRead(st, [sig EXCEPT !.l = UnwrapOr(r.val, 0)], r.pos) :
                        r \in {Number(h, k.pos)}})
              ELSE IF key = S
              THEN The({TagRead(st, [sig EXCEPT !.s = r.val], r.pos) : r \in {Tag(h, k.pos)}})
              ELSE IF key = T
              THEN The({TagRead(st, [sig EXCEPT !.t = UnwrapOr(r.val, 0)], r.pos) :
                        r \in {Number(h, k.pos)}})
              ELSE IF key = X
              THEN The({TagRead(st, [sig EXCEPT !.x = UnwrapOr(r.val, 0)], r.pos) :
                        r \in {Number(h, k.pos)}})
              ELSE IF key = Z
              THEN The({TagRead(st, [sig EXCEPT !.z = r.val], r.pos) :
                        r \in {HeadersQp(h, k.pos)}})
              ELSE [st EXCEPT !.pos = Ignore(h, k.pos)] :
         k \in {Key(h, st.pos)}})

\* The check after the loop, with d left out of it.
HasRequiredParametersButD(sig) ==
    sig.s # <<>> /\ sig.b # <<>> /\ sig.bh # <<>> /\ sig.h # <<>>

\* The check after the loop.
HasRequiredParameters(sig) ==
    sig.d # <<>> /\ sig.s # <<>> /\ sig.b # <<>> /\ sig.bh # <<>> /\ sig.h # <<>>

\* The number of '=' of h: key() consumes one every time it returns a key.
CountEquals(h) == Cardinality({p \in 1..Len(h) : h[p] = EQUALS})

\* Signature::parse(header)
SignatureParse(h) ==
    LET Turn(st, turn) == SignatureParseStep(h, st, turn)
    IN The({IF end.err # None THEN Err(Unwrap(end.err))
            ELSE IF HasRequiredParameters(end.sig) THEN Ok(end.sig)
            ELSE Err("MissingParameters") :
            end \in {FoldRange(Turn, [pos |-> 0, sig |-> SignatureNew, err |-> None,
                                      done |-> FALSE],
                               1, CountEquals(h) + 1)}})

----------------------------------------------------------------------------
(* The splitter on every short message *)

MaxMsgLen == 6

\* Enough to build every line shape: a name byte, the colon, CR, LF, space and tab.
SplitAlphabet == {Ord("a"), COLON, CR, LF, SP, HT}

InitSplit ==
    /\ message \in SeqsUpTo(SplitAlphabet, MaxMsgLen)
    /\ hi = HeaderIteratorNew
    /\ hi_items = <<>>
    /\ hi_stop = None
    /\ hp = HeaderParserNew
    /\ hp_items = <<>>
    /\ cl_name = 0
    /\ sp_choice = None
    /\ sp_header = <<>>
    /\ sp_result = None
    /\ sg_signer = None
    /\ sg_now = 0
    /\ sg_sig = None
    /\ sg_header = None
    /\ sg_parsed = None
    /\ sg_verified = None

NextSplit == HeaderIteratorNext

SpecSplit == InitSplit /\ [][NextSplit]_vars

----------------------------------------------------------------------------
(* Claims about the splitter *)

\* The iterator is in the state in which next() first returned None.
AtFirstNone == hi_stop # None /\ hi = Unwrap(hi_stop)

\* The bytes from body_offset to the end of the message.
Body == LET o == BodyOffset(message, hi) IN
        IF o = None THEN <<>> ELSE Slice(message, Unwrap(o), Len(message))

PairBytes(item) == item.name \o item.value

\* A pair with the colon that next() left out of a well-formed header put back.
PairBytesWithColon(item) ==
    item.name \o (IF item.value = <<>> THEN <<>> ELSE <<COLON>>) \o item.value

\* C3 as stated: once next() has returned None, the (name, value) pairs
\* concatenated in order, followed by the bytes from body_offset to the end,
\* are the message byte for byte.
C3_PairsAndBodyAreTheMessage ==
    AtFirstNone =>
        Concat([i \in 1..Len(hi_items) |-> PairBytes(hi_items[i])]) \o Body = message

\* C3 amended: at every moment the yielded pairs, each written as name, then
\* ':' when its value is not empty, then value, are together exactly the
\* message bytes before start_pos, each pair starting where the one before it
\* ended; when next() has returned None the message is those bytes, then the
\* bytes that call consumed (from start_pos to the iterator), then the bytes
\* from body_offset on.
C3_PairsWithColonsCoverThePrefix ==
    /\ Concat([i \in 1..Len(hi_items) |-> PairBytesWithColon(hi_items[i])])
         = Slice(message, 0, hi.start_pos)
    /\ \A i \in 1..Len(hi_items) :
         hi_items[i].off = Len(Concat([j \in 1..(i - 1) |-> PairBytesWithColon(hi_items[j])]))
    /\ AtFirstNone =>
         /\ hi.start_pos <= hi.pos
         /\ message = Slice(message, 0, hi.start_pos)
                        \o Slice(message, hi.start_pos, hi.pos) \o Body

\* A message with one well-formed header, an end of headers and a body has been split.
C3_Witness ==
    /\ AtFirstNone
    /\ \E i \in 1..Len(hi_items) : hi_items[i].value # <<>>
    /\ Body # <<>>
    /\ hi.start_pos < hi.pos

\* The positions at which a line of m starts (the last may be the end of m).
LineStarts(m) == {0} \cup {p + 1 : p \in {q \in 0..(Len(m) - 1) : m[q + 1] = LF}}

\* The lines that are empty: [start |-> s, lf |-> e] with m[s..e) empty or a lone CR.
EmptyLines(m) ==
    {l \in [start : LineStarts(m), lf : 0..(Len(m) - 1)] :
        /\ m[l.lf + 1] = LF
        /\ \/ l.lf = l.start
           \/ l.lf = l.start + 1 /\ m[l.start + 1] = CR}

FirstEmptyLine(m) ==
    CHOOSE l \in EmptyLines(m) : \A k \in EmptyLines(m) : l.start <= k.start

\* C4: next() stops (returns None) exactly at the first empty line of the
\* message: everything before that line has been yielded, nothing after it,
\* and body_offset is then the position after that line's LF.
C4_StopsAtFirstEmptyLine ==
    (hi_stop # None /\ EmptyLines(message) # {}) =>
        LET l == FirstEmptyLine(message) IN
        /\ Unwrap(hi_stop).start_pos = l.start
        /\ Unwrap(hi_stop).pos = l.lf + 1
        /\ BodyOffset(message, Unwrap(hi_stop))
             = (IF l.lf + 1 < Len(message) THEN Some(l.lf + 1) ELSE None)

Min(set) == CHOOSE x \in set : \A y \in set : x <= y

ColonsFrom(m, s) == {p \in s..(Len(m) - 1) : m[p + 1] = COLON}

LFsFrom(m, s) == {p \in s..(Len(m) - 1) : m[p + 1] = LF}

\* The LFs after position c that end a header: not followed by a space or a tab.
HeaderEndsAfter(m, c) ==
    {p \in LFsFrom(m, c + 1) : p + 1 = Len(m) \/ m[p + 2] \notin {SP, HT}}

\* There is a colon at or after s, and after it an LF that ends a header.
ColonAndEndAfter(m, s) ==
    /\ ColonsFrom(m, s) # {}
    /\ HeaderEndsAfter(m, Min(ColonsFrom(m, s))) # {}

\* The line that starts at s contains a colon, and the header it starts ends in an LF.
HeaderLineWithColonAt(m, s) ==
    /\ ColonAndEndAfter(m, s)
    /\ \A p \in LFsFrom(m, s) : Min(ColonsFrom(m, s)) < p

\* The pair the claim describes for the header that starts at s.
ExpectedPair(m, s) ==
    LET c == Min(ColonsFrom(m, s))
        e == Min(HeaderEndsAfter(m, c))
    IN [name |-> SubSeq(m, s + 1, c), value |-> SubSeq(m, c + 2, e + 1), off |-> s]

\* C5: in the header block, a header line that contains a colon is yielded
\* with name = the bytes from the start of the header to the first colon
\* (excluded) and value = the bytes after that colon through the LF of the
\* header's last physical line, continuation lines (those that begin with a
\* space or a tab) included verbatim; nothing after the colon gives a value
\* that is just the line break. And every pair with a colon yielded in the
\* header block is of that form.
C5_HeaderWithColonIsYielded ==
    [][hi_stop = None =>
        /\ HeaderLineWithColonAt(message, hi.start_pos) =>
              hi_items' = Append(hi_items, ExpectedPair(message, hi.start_pos))
        /\ (hi_items' # hi_items /\ hi_items'[Len(hi_items')].value # <<>>) =>
              /\ ColonAndEndAfter(message, hi.start_pos)
              /\ hi_items'[Len(hi_items')] = ExpectedPair(message, hi.start_pos)]_vars

\* A header whose value has a continuation line, and one whose value is only
\* its line break, have been yielded.
C5_Witness ==
    /\ hi_stop = None
    /\ \E i \in 1..Len(hi_items) :
         LET v == hi_items[i].value IN
         \E k \in 1..(Len(v) - 1) : v[k] = LF /\ v[k + 1] \in {SP, HT}
    /\ \E i \in 1..Len(hi_items) : hi_items[i].value = <<LF>>

----------------------------------------------------------------------------
(* The classifier on the recognised names, re-cased and with white space *)

\* The recognised names and the variant of each.
Recognised ==
    <<[name |-> Str(<<"D", "K", "I", "M", "-", "S", "i", "g", "n", "a", "t", "u", "r", "e">>),
       header |-> "Ds"],
      [name |-> Str(<<"A", "R", "C", "-", "A", "u", "t", "h", "e", "n", "t", "i", "c", "a",
                      "t", "i", "o", "n", "-", "R", "e", "s", "u", "l", "t", "s">>),
       header |-> "Aar"],
      [name |-> Str(<<"A", "R", "C", "-", "M", "e", "s", "s", "a", "g", "e", "-",
                      "S", "i", "g", "n", "a", "t", "u", "r", "e">>),
       header |-> "Ams"],
      [name |-> Str(<<"A", "R", "C", "-", "S", "e", "a", "l">>), header |-> "As"],
      [name |-> Str(<<"F", "r", "o", "m">>), header |-> "From"]>>

\* How many space or tab bytes are put into a name.
MaxWsInserts == 1

Upper(b) == IF b >= 97 /\ b <= 122 THEN b - 32 ELSE b

FlipCase(b) == IF Lower(b) = b THEN Upper(b) ELSE Lower(b)

\* The name as it is, all upper case, all lower case, or with one letter's case changed.
CaseVariants(name) ==
    {name, [i \in 1..Len(name) |-> Upper(name[i])], LowerSeq(name)}
    \cup {[name EXCEPT ![k] = FlipCase(@)] : k \in 1..Len(name)}

\* s with byte w put in after its first p bytes.
InsertAt(s, p, w) == SubSeq(s, 1, p) \o <<w>> \o SubSeq(s, p + 1, Len(s))

\* s with up to n spaces or tabs put in anywhere: before it, inside it, after it.
RECURSIVE WsVariants(_, _)
WsVariants(s, n) ==
    IF n = 0 THEN {s}
    ELSE LET fewer == WsVariants(s, n - 1)
         IN fewer \cup {InsertAt(v, p, w) : v \in fewer, p \in 0..(Len(s) + n - 1), w \in {SP, HT}}

InitClassify ==
    /\ cl_name \in 1..Len(Recognised)
    /\ \E cased \in CaseVariants(Recognised[cl_name].name) :
         \E written \in WsVariants(cased, MaxWsInserts) :
            message = written \o <<COLON, SP, Ord("x"), CR, LF>>
    /\ hp = HeaderParserNew
    /\ hp_items = <<>>
    /\ hi = HeaderIteratorNew
    /\ hi_items = <<>>
    /\ hi_stop = None
    /\ sp_choice = None
    /\ sp_header = <<>>
    /\ sp_result = None
    /\ sg_signer = None
    /\ sg_now = 0
    /\ sg_sig = None
    /\ sg_header = None
    /\ sg_parsed = None
    /\ sg_verified = None

NextClassify == HeaderParserNext

SpecClassify == InitClassify /\ [][NextClassify]_vars

\* C6: a recognised name keeps its variant whatever the case of its letters
\* and wherever spaces or tabs are put inside it or between it and the colon.
C6_ClassifierStability ==
    \A i \in 1..Len(hp_items) : hp_items[i].header = Recognised[cl_name].header

----------------------------------------------------------------------------
(* Signature::parse on DKIM-Signature values written from a choice of tags *)

\* The call Signature::parse(sp_header).
SignatureParseCall ==
    /\ sp_result = None
    /\ sp_result' = Some(SignatureParse(sp_header))
    /\ UNCHANGED <<message, splitVars, classVars, sp_choice, sp_header, signVars>>

\* A value is written as a sequence of tokens; white space may go between them.
Word(chars) == <<Str(chars)>>

\* Every byte of the text a token of its own (base64 text).
EachByte(text) == [k \in 1..Len(text) |-> <<text[k]>>]

\* name=value; as tokens
TagTokens(name, value) == <<Str(name), <<EQUALS>>>> \o value \o <<<<SEMI>>>>

\* The name of a canonicalization in a given style of letters.
CanonName(c, style) ==
    LET lower == IF c = "Simple" THEN Str(<<"s", "i", "m", "p", "l", "e">>)
                 ELSE Str(<<"r", "e", "l", "a", "x", "e", "d">>)
    IN CASE style = "lower" -> lower
         [] style = "upper" -> [k \in 1..Len(lower) |-> Upper(lower[k])]
         [] OTHER -> [lower EXCEPT ![1] = Upper(@)]

Canonicalizations == {"Simple", "Relaxed"}

\* The ways the c= tag is written: not at all, c=X or c=X/Y.
CChoices ==
    {None}
    \cup {Some([x |-> x, y |-> y, style |-> st]) :
            x \in Canonicalizations,
            y \in {None} \cup {Some(c) : c \in Canonicalizations},
            st \in {"lower", "upper", "capital"}}

\* The alternatives of every tag; the first one of each is the usual one.
Menu ==
    [v |-> <<"1", "absent", "2", "0", "x">>,
     a |-> <<"rsa-sha256", "absent", "rsa-sha1", "ed25519-sha256", "RSA-SHA256", "rsa-sha512", "hmac">>,
     s |-> <<"sel", "absent", "empty">>,
     d |-> <<"ex.org", "absent", "empty">>,
     h |-> <<"From:To", "absent", "empty", "colons">>,
     i |-> <<"absent", "plain", "qp">>,
     t |-> <<"absent", "12">>,
     x |-> <<"absent", "34">>,
     l |-> <<"absent", "5", "0">>,
     z |-> <<"absent", "From:a|To:b">>,
     q |-> <<"absent", "dns/txt">>,
     bh |-> <<"AQI=", "absent", "empty", "invalid">>,
     b |-> <<"AwQF", "absent", "empty", "invalid">>]

Slots == DOMAIN Menu

\* The tokens of one tag written as the alternative alt.
SlotTokens(slot, alt) ==
    IF alt = "absent" THEN <<>>
    ELSE IF alt = "empty" THEN TagTokens(IF slot = "bh" THEN <<"b", "h">> ELSE <<slot>>, <<>>)
    ELSE CASE alt = "1" -> TagTokens(<<"v">>, Word(<<"1">>))
           [] alt = "2" -> TagTokens(<<"v">>, Word(<<"2">>))
           [] alt = "0" /\ slot = "v" -> TagTokens(<<"v">>, Word(<<"0">>))
           [] alt = "x" /\ slot = "v" -> TagTokens(<<"v">>, Word(<<"x">>))
           [] alt = "rsa-sha256" ->
                TagTokens(<<"a">>, Word(<<"r", "s", "a", "-", "s", "h", "a", "2", "5", "6">>))
           [] alt = "rsa-sha1" ->
                TagTokens(<<"a">>, Word(<<"r", "s", "a", "-", "s", "h", "a", "1">>))
           [] alt = "ed25519-sha256" ->
                TagTokens(<<"a">>, Word(<<"e", "d", "2", "5", "5", "1", "9", "-",
                                          "s", "h", "a", "2", "5", "6">>))
           [] alt = "RSA-SHA256" ->
                TagTokens(<<"a">>, Word(<<"R", "S", "A", "-", "S", "H", "A", "2", "5", "6">>))
           [] alt = "rsa-sha512" ->
                TagTokens(<<"a">>, Word(<<"r", "s", "a", "-", "s", "h", "a", "5", "1", "2">>))
           [] alt = "hmac" -> TagTokens(<<"a">>, Word(<<"h", "m", "a", "c">>))
           [] alt = "sel" -> TagTokens(<<"s">>, Word(<<"s", "e", "l">>))
           [] alt = "ex.org" -> TagTokens(<<"d">>, Word(<<"e", "x", ".", "o", "r", "g">>))
           [] alt = "From:To" ->
                TagTokens(<<"h">>, <<Str(<<"F", "r", "o", "m">>), <<COLON>>, Str(<<"T", "o">>)>>)
           [] alt = "colons" -> TagTokens(<<"h">>, <<<<COLON>>, <<COLON>>>>)
           [] alt = "plain" -> TagTokens(<<"i">>, Word(<<"a", "@", "e", "x", ".", "o", "r", "g">>))
           [] alt = "qp" ->
                TagTokens(<<"i">>, Word(<<"a", "=", "2", "0", "b", "@", "e", "x", ".", "o", "r", "g">>))
           [] alt = "12" -> TagTokens(<<"t">>, Word(<<"1", "2">>))
           [] alt = "34" -> TagTokens(<<"x">>, Word(<<"3", "4">>))
           [] alt = "5" -> TagTokens(<<"l">>, Word(<<"5">>))
           [] alt = "0" /\ slot = "l" -> TagTokens(<<"l">>, Word(<<"0">>))
           [] alt = "From:a|To:b" ->
                TagTokens(<<"z">>, <<Str(<<"F", "r", "o", "m", ":", "a">>), <<PIPE>>,
                                     Str(<<"T", "o", ":", "b">>)>>)
           [] alt = "dns/txt" -> TagTokens(<<"q">>, Word(<<"d", "n", "s", "/", "t", "x", "t">>))
           [] alt = "AQI=" -> TagTokens(<<"b", "h">>, EachByte(Str(<<"A", "Q", "I", "=">>)))
           [] alt = "AwQF" -> TagTokens(<<"b">>, EachByte(Str(<<"A", "w", "Q", "F">>)))
           [] alt = "invalid" ->
                TagTokens(IF slot = "bh" THEN <<"b", "h">> ELSE <<"b">>,
                          EachByte(Str(<<"A", "!", "I", "=">>)))

\* The tokens of the c= tag.
CTokens(c) ==
    IF c = None THEN <<>>
    ELSE LET r == Unwrap(c) IN
         TagTokens(<<"c">>,
                   <<CanonName(r.x, r.style)>>
                   \o (IF r.y = None THEN <<>>
                       ELSE <<<<SLASH>>, CanonName(Unwrap(r.y), r.style)>>))

\* The usual alternative of every tag.
BaseTags == [slot \in Slots |-> Menu[slot][1]]

TagAlts == UNION {{<<slot, Menu[slot][k]>> : k \in 1..Len(Menu[slot])} : slot \in Slots}

\* The usual tags with one or two of them written as another alternative.
Vary(p1, p2) ==
    [slot \in Slots |-> IF slot = p2[1] THEN p2[2]
                        ELSE IF slot = p1[1] THEN p1[2]
                        ELSE BaseTags[slot]]

OneVaried == {Vary(p, p) : p \in TagAlts}

TwoVaried == {Vary(p1, p2) : p1 \in TagAlts, p2 \in TagAlts}

\* The alternatives that parse, for white space to be put into.
WsTagAlts ==
    {<<"v", "1">>, <<"a", "rsa-sha1">>, <<"a", "ed25519-sha256">>, <<"a", "RSA-SHA256">>,
     <<"i", "plain">>, <<"i", "qp">>, <<"t", "12">>, <<"x", "34">>, <<"l", "5">>,
     <<"z", "From:a|To:b">>, <<"q", "dns/txt">>}

WsCChoices ==
    {None,
     Some([x |-> "Relaxed", y |-> None, style |-> "upper"]),
     Some([x |-> "Simple", y |-> Some("Relaxed"), style |-> "capital"]),
     Some([x |-> "Relaxed", y |-> Some("Simple"), style |-> "lower"])}

WsKinds == {"SP", "HT", "CRLF SP", "CRLF HT"}

WsBytes(kind) ==
    CASE kind = "SP" -> <<SP>>
      [] kind = "HT" -> <<HT>>
      [] kind = "CRLF SP" -> <<CR, LF, SP>>
      [] OTHER -> <<CR, LF, HT>>

\* No white space anywhere.
NoWs == [gap |-> 0, every |-> FALSE, kind |-> "SP"]

\* The tokens of the value, in the order the signer writes the tags.
Tokens(tags, c) ==
    SlotTokens("v", tags.v) \o SlotTokens("a", tags.a) \o SlotTokens("s", tags.s)
    \o SlotTokens("d", tags.d) \o CTokens(c) \o SlotTokens("h", tags.h)
    \o SlotTokens("i", tags.i) \o SlotTokens("t", tags.t) \o SlotTokens("x", tags.x)
    \o SlotTokens("l", tags.l) \o SlotTokens("z", tags.z) \o SlotTokens("q", tags.q)
    \o SlotTokens("bh", tags.bh) \o SlotTokens("b", tags.b)

\* The tokens one after the other, with the white space ws between them.
Render(toks, ws) ==
    LET Put(out, k) ==
            out \o toks[k]
                \o (IF k < Len(toks) /\ (ws.every \/ ws.gap = k) THEN WsBytes(ws.kind) ELSE <<>>)
    IN FoldRange(Put, <<>>, 1, Len(toks))

ParseChoices ==
    {[tags |-> tags, c |-> Some([x |-> "Relaxed", y |-> Some("Relaxed"), style |-> "lower"]),
      ws |-> NoWs] : tags \in TwoVaried}
    \cup {[tags |-> tags, c |-> c, ws |-> NoWs] : tags \in OneVaried, c \in CChoices}

\* The choices with white space between two tokens (gap), or between every two.
WsChoices ==
    UNION {{[tags |-> Vary(p, p), c |-> c, ws |-> [gap |-> g, every |-> g = 0, kind |-> kind]] :
              g \in 0..(Len(Tokens(Vary(p, p), c)) - 1), kind \in WsKinds} :
           p \in WsTagAlts, c \in WsCChoices}

InitParse ==
    /\ sp_choice \in ParseChoices \cup WsChoices
    /\ \E tokens \in {Tokens(sp_choice.tags, sp_choice.c)} :
          sp_header = Render(tokens, sp_choice.ws)
    /\ sp_result = None
    /\ message = <<>>
    /\ hi = HeaderIteratorNew
    /\ hi_items = <<>>
    /\ hi_stop = None
    /\ hp = HeaderParserNew
    /\ hp_items = <<>>
    /\ cl_name = 0
    /\ sg_signer = None
    /\ sg_now = 0
    /\ sg_sig = None
    /\ sg_header = None
    /\ sg_parsed = None
    /\ sg_verified = None

NextParse == SignatureParseCall

SpecParse == InitParse /\ [][NextParse]_vars

\* What Signature::parse returned.
Parsed == Unwrap(sp_result)

\* One of the required tags is not written, or written without a value.
SomeRequiredMissing ==
    \E slot \in {"d", "s", "b", "bh", "h"} : sp_choice.tags[slot] \in {"absent", "empty", "colons"}

\* A tag is written with a value that parse rejects when it reads it.
SomeTagError ==
    \/ sp_choice.tags.v \in {"2", "0", "x"}
    \/ sp_choice.tags.a \in {"rsa-sha512", "hmac"}
    \/ sp_choice.tags.b = "invalid"
    \/ sp_choice.tags.bh = "invalid"

\* C7: parse returns Ok only if d, s, b, bh and h are all non-empty after
\* parsing; when one of them is absent or empty and no tag is in error, it
\* returns MissingParameters.
C7_RequiredParameters ==
    sp_result # None =>
        /\ Parsed.ok =>
             /\ ~SomeRequiredMissing
             /\ Parsed.val.d # <<>> /\ Parsed.val.s # <<>> /\ Parsed.val.b # <<>>
             /\ Parsed.val.bh # <<>> /\ Parsed.val.h # <<>>
        /\ (SomeRequiredMissing /\ ~SomeTagError) => Parsed = Err("MissingParameters")

C7_Witness ==
    /\ sp_result = Some(Err("MissingParameters"))
    /\ sp_choice.tags.d = "empty"
    /\ sp_choice.tags.t = "12"

\* C8: every Signature that parse returns has v = 1, and a value whose v tag
\* is anything else is rejected with UnsupportedVersion.
C8_VersionIsOne ==
    sp_result # None =>
        /\ Parsed.ok => Parsed.val.v = 1
        /\ sp_choice.tags.v \in {"2", "0", "x"} => Parsed = Err("UnsupportedVersion")

\* The canonicalizations that the c= tag as written stands for.
ExpectedCanonicalization(c) ==
    IF c = None THEN [ch |-> "Simple", cb |-> "Simple"]
    ELSE [ch |-> Unwrap(c).x, cb |-> IF Unwrap(c).y = None THEN "Simple" ELSE Unwrap(Unwrap(c).y)]

\* C9: without a c= tag the value parses with (simple, simple), with c=X with
\* (X, simple), with c=X/Y with (X, Y), whatever the case of the names and
\* the white space around them.
C9_CanonicalizationDefaults ==
    (sp_result # None /\ ~SomeRequiredMissing /\ ~SomeTagError) =>
        /\ Parsed.ok
        /\ [ch |-> Parsed.val.ch, cb |-> Parsed.val.cb] = ExpectedCanonicalization(sp_choice.c)

C9_Witness ==
    /\ sp_result # None
    /\ Parsed.ok
    /\ sp_choice.c = Some([x |-> "Simple", y |-> Some("Relaxed"), style |-> "capital"])
    /\ sp_choice.ws = [gap |-> 0, every |-> TRUE, kind |-> "CRLF SP"]
    /\ Parsed.val.ch = "Simple" /\ Parsed.val.cb = "Relaxed"

\* C10: white space (spaces, tabs, CRLF and a space or a tab) between tokens
\* of a value that parses does not change any field of the result.
C10_WhitespaceInsensitive ==
    (sp_result # None /\ sp_choice.ws # NoWs) =>
        \A tokens \in {Tokens(sp_choice.tags, sp_choice.c)} :
            \A unspaced \in {Render(tokens, NoWs)} :
                \A original \in {SignatureParse(unspaced)} :
                    original.ok => Parsed = original

C10_Witness ==
    /\ sp_result # None
    /\ Parsed.ok
    /\ sp_choice.ws = [gap |-> 0, every |-> TRUE, kind |-> "CRLF HT"]
    /\ sp_choice.tags.i = "qp"
    /\ \E tokens \in {Tokens(sp_choice.tags, sp_choice.c)} :
          Len(sp_header) = Len(Render(tokens, NoWs)) + 3 * (Len(tokens) - 1)

----------------------------------------------------------------------------
(* Signature::write, src/src/dkim/sign.rs *)

\* u64::to_string
RECURSIVE U64ToString(_)
U64ToString(n) == IF n < 10 THEN <<48 + n>> ELSE U64ToString(n \div 10) \o <<48 + (n % 10)>>

HexDigitUpper(v) == IF v < 10 THEN 48 + v ELSE 65 + (v - 10)

\* format!("={:02X}", ch)
FormatQp(ch) == <<EQUALS, HexDigitUpper(ch \div 16), HexDigitUpper(ch % 16)>>

\* Canonicalization::serialize_name
SerializeName(c) ==
    IF c = "Relaxed" THEN Str(<<"r", "e", "l", "a", "x", "e", "d">>)
    ELSE Str(<<"s", "i", "m", "p", "l", "e">>)

\* The name of the algorithm in the a= tag.
AlgorithmName(a) ==
    CASE a = "RsaSha256" -> Str(<<"r", "s", "a", "-", "s", "h", "a", "2", "5", "6">>)
      [] a = "RsaSha1" -> Str(<<"r", "s", "a", "-", "s", "h", "a", "1">>)
      [] OTHER -> Str(<<"e", "d", "2", "5", "5", "1", "9", "-", "s", "h", "a", "2", "5", "6">>)

HeaderNameForHash == Str(<<"d", "k", "i", "m", "-", "s", "i", "g", "n", "a", "t", "u", "r", "e", ":">>)

HeaderNameAsHeader ==
    Str(<<"D", "K", "I", "M", "-", "S", "i", "g", "n", "a", "t", "u", "r", "e", ":", " ">>)

\* The writer and the count bw of the bytes written on the line.
\* bw += writer.write(bytes)
WriteCounted(w, bytes) == [out |-> w.out \o bytes, bw |-> w.bw + Len(bytes)]

\* writer.write_all(bytes)
WriteAll(w, bytes) == [w EXCEPT !.out = @ \o bytes]

\* The same with CRLF TAB written whatever new_line is.
WriteNewLineAsHeader(w, new_line) == [out |-> w.out \o <<CR, LF, HT>>, bw |-> 1]

\* writer.write_all(new_line); bw = 1
WriteNewLine(w, new_line) == [out |-> w.out \o new_line, bw |-> 1]

\* One turn of the loop over self.h, for the name of index num (from 0).
WriteHeaderName(names, new_line, w, num) ==
    LET h == names[num + 1]
        w1 == IF w.bw + Len(h) + 1 >= 76 THEN WriteNewLine(w, new_line) ELSE w
        w2 == IF num > 0 THEN WriteCounted(w1, <<COLON>>)
              ELSE WriteCounted(w1, Str(<<"h", "=">>))
    IN WriteCounted(w2, h)

\* The bytes of i that are written as =XX: 0..=0x20, ';' and 0x7f..=u8::MAX.
IsWrittenQp(ch) == ch <= 32 \/ ch = SEMI \/ ch >= 127

\* One turn of the loop over the bytes of self.i.
WriteAuidByte(i, new_line, w, k) ==
    LET ch == i[k]
        w1 == IF IsWrittenQp(ch) THEN WriteCounted(w, FormatQp(ch)) ELSE WriteCounted(w, <<ch>>)
    IN IF w1.bw >= 76 THEN WriteNewLine(w1, new_line) ELSE w1

\* The i= tag.
WriteAuid(i, new_line, w) ==
    IF i = <<>> THEN w
    ELSE LET w1 == IF w.bw + Len(i) + 3 >= 76
                   THEN WriteNewLine(WriteAll(w, <<SEMI>>), new_line)
                   ELSE WriteCounted(w, <<SEMI, SP>>)
             w2 == WriteCounted(w1, Str(<<"i", "=">>))
             Turn(st, k) == WriteAuidByte(i, new_line, st, k)
         IN FoldRange(Turn, w2, 1, Len(i))

\* One turn of the loop over t=, x= and l=.
WriteNumber(tag, number, new_line, w) ==
    IF number > 0
    THEN LET value == U64ToString(number)
             w1 == WriteCounted(w, <<SEMI>>)
             w2 == IF w1.bw + Len(tag) + Len(value) >= 76 THEN WriteNewLine(w1, new_line)
                   ELSE WriteCounted(w1, <<SP>>)
             w3 == WriteCounted(w2, tag)
         IN WriteCounted(w3, value)
    ELSE w

\* One turn of the loop over the bytes of bh or b.
WriteValueByte(value, new_line, w, k) ==
    LET w1 == WriteCounted(w, <<value[k]>>)
    IN IF w1.bw >= 76 THEN WriteNewLine(w1, new_line) ELSE w1

\* One turn of the loop over bh= and b=.
WriteValue(tag, value, new_line, w) ==
    LET w1 == WriteCounted(w, tag)
        Turn(st, k) == WriteValueByte(value, new_line, st, k)
    IN FoldRange(Turn, w1, 1, Len(value))

\* Signature::write(writer, as_header): the bytes written.
SignatureWrite(sig, as_header) ==
    LET forHash == sig.ch = "Relaxed" /\ ~as_header
        header == IF forHash THEN HeaderNameForHash ELSE HeaderNameAsHeader
        new_line == IF forHash THEN <<SP>> ELSE <<CR, LF, HT>>
        start == header \o Str(<<"v", "=", "1", ";", " ", "a", "=">>) \o AlgorithmName(sig.a)
                 \o Str(<<";", " ", "s", "=">>) \o sig.s
                 \o Str(<<";", " ", "d", "=">>) \o sig.d
                 \o Str(<<";", " ", "c", "=">>) \o SerializeName(sig.ch)
                 \o <<SLASH>> \o SerializeName(sig.cb)
                 \o <<SEMI>> \o new_line
        w0 == [out |-> start, bw |-> 1]
        NameTurn(st, k) == WriteHeaderName(sig.h, new_line, st, k - 1)
        w1 == FoldRange(NameTurn, w0, 1, Len(sig.h))
        w2 == WriteAuid(sig.i, new_line, w1)
        w3 == WriteNumber(Str(<<"t", "=">>), sig.t, new_line, w2)
        w4 == WriteNumber(Str(<<"x", "=">>), sig.x, new_line, w3)
        w5 == WriteNumber(Str(<<"l", "=">>), sig.l, new_line, w4)
        w6 == WriteValue(Str(<<";", " ", "b", "h", "=">>), sig.bh, new_line, w5)
        w7 == WriteValue(Str(<<";", " ", "b", "=">>), sig.b, new_line, w6)
    IN w7.out \o <<SEMI>> \o (IF as_header THEN <<CR, LF>> ELSE <<>>)

----------------------------------------------------------------------------
(* The canonicalizer, src/dkim/canonicalize.rs (spec section 4.4) *)

\* All the headers of the message m and its body, as HeaderIterator gives them.
CollectStep(m, st, turn) ==
    IF st.done THEN st
    ELSE The({IF r.item = None
              THEN [st EXCEPT !.done = TRUE, !.it = [pos |-> r.pos, start_pos |-> r.start_pos]]
              ELSE [st EXCEPT !.it = [pos |-> r.pos, start_pos |-> r.start_pos],
                              !.items = Append(@, Unwrap(r.item))] :
              r \in {HeaderIteratorNextResult(m, st.it)}})

\* (&mut headers_it).collect(), then the bytes from body_offset() on.
CollectHeaders(m) ==
    LET Turn(st, turn) == CollectStep(m, st, turn)
        BodyFrom(offset) == IF offset = None THEN <<>> ELSE Slice(m, Unwrap(offset), Len(m))
    IN The({[headers |-> end.items, body |-> BodyFrom(BodyOffset(m, end.it))] :
            end \in {FoldRange(Turn, [it |-> HeaderIteratorNew, items |-> <<>>, done |-> FALSE],
                               1, Cardinality({p \in 1..Len(m) : m[p] = LF}) + 1)}})

\* The number of CRLFs that the body b ends in.
TrailingCrlfs(b) ==
    LET IsCrlfAt(j) == b[Len(b) - 2 * j + 1] = CR /\ b[Len(b) - 2 * j + 2] = LF
    IN CHOOSE n \in 0..(Len(b) \div 2) :
          /\ \A j \in 1..n : IsCrlfAt(j)
          /\ (2 * (n + 1) <= Len(b) => ~IsCrlfAt(n + 1))

\* Body, simple: the empty lines at the end stripped, then one CRLF.
BodySimple(b) == SubSeq(b, 1, Len(b) - 2 * TrailingCrlfs(b)) \o <<CR, LF>>

\* Runs of spaces and tabs within a line made one space, those at the end of a
\* line dropped.
BodyWspStep(b, st, k) ==
    IF b[k] \in {SP, HT} THEN [st EXCEPT !.pending = TRUE]
    ELSE IF b[k] \in {CR, LF} THEN [out |-> Append(st.out, b[k]), pending |-> FALSE]
    ELSE [out |-> (IF st.pending THEN Append(st.out, SP) ELSE st.out) \o <<b[k]>>,
          pending |-> FALSE]

\* Body, relaxed.
BodyRelaxed(b) ==
    LET Turn(st, k) == BodyWspStep(b, st, k)
        collapsed == FoldRange(Turn, [out |-> <<>>, pending |-> FALSE], 1, Len(b)).out
    IN BodySimple(collapsed)

CanonicalizeBody(cb, b) == IF cb = "Relaxed" THEN BodyRelaxed(b) ELSE BodySimple(b)

\* Header, simple: the header as it appeared.
HeaderSimple(name, value) == name \o <<COLON>> \o value

\* Runs of white space (space, tab, CRLF and space or tab) of a header value
\* made one space; those before the first byte and after the last one dropped.
HeaderWspStep(value, st, k) ==
    IF IsAsciiWhitespace(value[k]) THEN [st EXCEPT !.pending = st.out # <<>>]
    ELSE [out |-> (IF st.pending THEN Append(st.out, SP) ELSE st.out) \o <<value[k]>>,
          pending |-> FALSE]

\* Header, relaxed: the name in lower case, no white space around the colon,
\* runs of white space collapsed, no white space and no CRLF at the end.
HeaderRelaxed(name, value) ==
    LET Turn(st, k) == HeaderWspStep(value, st, k)
        collapsed == FoldRange(Turn, [out |-> <<>>, pending |-> FALSE], 1, Len(value)).out
    IN LowerSeq(StripWhitespace(name)) \o <<COLON>> \o collapsed

CanonicalizeHeader(ch, name, value) ==
    IF ch = "Relaxed" THEN HeaderRelaxed(name, value) ELSE HeaderSimple(name, value)

\* For each name in turn, the last header of that name that no name before it
\* has taken; a name with no header left is passed over.
SelectStep(headers, names, st, k) ==
    LET free == {j \in 1..Len(headers) :
                    j \notin st.taken /\ EqIgnoreAsciiCase(headers[j].name, names[k])}
    IN IF free = {} THEN st
       ELSE LET j == CHOOSE j \in free : \A other \in free : other <= j
            IN [taken |-> st.taken \cup {j},
                picked |-> Append(st.picked, [name |-> names[k], header |-> headers[j],
                                              at |-> j])]

SelectHeaders(headers, names) ==
    LET Turn(st, k) == SelectStep(headers, names, st, k)
    IN FoldRange(Turn, [taken |-> {}, picked |-> <<>>], 1, Len(names)).picked

\* The headers picked, the latest of the message first: signing From, To and
\* Subject of a message that holds them in this order gives h=Subject:To:From
\* (test dkim_sign, lines 383-414).
LatestFirst(picked) ==
    [k \in 1..Len(picked) |->
        CHOOSE e \in {picked[j] : j \in 1..Len(picked)} :
            Cardinality({j \in 1..Len(picked) : picked[j].at > e.at}) = k - 1]

\* The canonicalized headers, one after the other, as the header hash is fed.
FeedHeaders(ch, picked) ==
    LET Turn(fed, k) == fed \o CanonicalizeHeader(ch, picked[k].header.name, picked[k].header.value)
    IN FoldRange(Turn, <<>>, 1, Len(picked))

\* DKIMSigner::canonicalize(message, header_hasher, body_hasher): the length of
\* the canonicalized body, the names signed, and what the two hashers are fed.
Canonicalize(signer, m) ==
    The({The({[body_len |-> Len(canonical_body),
               signed_headers |-> [k \in 1..Len(picked) |-> picked[k].name],
               header_fed |-> FeedHeaders(signer.ch, picked),
               body_fed |-> canonical_body] :
              picked \in {LatestFirst(SelectHeaders(collected.headers, signer.sign_headers))},
              canonical_body \in {CanonicalizeBody(signer.cb, collected.body)}}) :
         collected \in {CollectHeaders(m)}})

----------------------------------------------------------------------------
(* DKIMSigner::sign, src/src/dkim/sign.rs *)

\* The hash functions are ideal: a digest stands for the bytes that were fed,
\* and for nothing else; SHA-1 and SHA-256 never give the same digest.
Finalize(hash, fed) == <<IF hash = "Sha1" THEN 1 ELSE 2>> \o fed

\* The signatures are ideal: a signature stands for its key and the digest signed.
KeySign(private_key, digest) == <<private_key.id>> \o digest

\* The hash of the algorithm (lines 148-153).
HashOf(a) == IF a = "RsaSha1" THEN "Sha1" ELSE "Sha256"

\* The same without the test `if signed_headers.is_empty()`.
SignWithAnyHeaders(signer, hash, m, now) ==
    LET SignatureOf(canon) ==
            [d |-> signer.d, s |-> signer.s, i |-> signer.i, b |-> <<>>,
             bh |-> Base64Encode(Finalize(hash, canon.body_fed)),
             h |-> canon.signed_headers,
             t |-> now,
             x |-> IF signer.x > 0 THEN now + signer.x ELSE 0,
             cb |-> signer.cb, ch |-> signer.ch, v |-> 1, a |-> signer.a, z |-> <<>>,
             l |-> IF signer.l THEN canon.body_len ELSE 0]
        WithSignature(canon, signature) ==
            LET digest == Finalize(hash, canon.header_fed \o SignatureWrite(signature, FALSE))
            IN IF signer.private_key = None THEN Err("MissingParameters")
               ELSE LET b == KeySign(Unwrap(signer.private_key), digest)
                    IN Ok([signature EXCEPT !.b = Base64Encode(b)])
    IN The({The({WithSignature(canon, signature) : signature \in {SignatureOf(canon)}}) :
            canon \in {Canonicalize(signer, m)}})

\* sign_::<T>(message, now)
SignWith(signer, hash, m, now) ==
    LET SignatureOf(canon) ==
            [d |-> signer.d, s |-> signer.s, i |-> signer.i, b |-> <<>>,
             bh |-> Base64Encode(Finalize(hash, canon.body_fed)),
             h |-> canon.signed_headers,
             t |-> now,
             x |-> IF signer.x > 0 THEN now + signer.x ELSE 0,
             cb |-> signer.cb, ch |-> signer.ch, v |-> 1, a |-> signer.a, z |-> <<>>,
             l |-> IF signer.l THEN canon.body_len ELSE 0]
        WithSignature(canon, signature) ==
            LET digest == Finalize(hash, canon.header_fed \o SignatureWrite(signature, FALSE))
            IN IF signer.private_key = None THEN Err("MissingParameters")
               ELSE LET b == KeySign(Unwrap(signer.private_key), digest)
                    IN Ok([signature EXCEPT !.b = Base64Encode(b)])
    IN The({IF canon.signed_headers = <<>> THEN Err("NoHeadersFound")
            ELSE The({WithSignature(canon, signature) : signature \in {SignatureOf(canon)}}) :
            canon \in {Canonicalize(signer, m)}})

\* sign(message), at the time now
Sign(signer, m, now) ==
    IF signer.d # <<>> /\ signer.s # <<>>
    THEN SignWith(signer, HashOf(signer.a), m, now)
    ELSE Err("MissingParameters")

----------------------------------------------------------------------------
(* The verifier, src/dkim/verify.rs (spec section 4.6) *)

DkimSignatureName ==
    Str(<<"D", "K", "I", "M", "-", "S", "i", "g", "n", "a", "t", "u", "r", "e">>)

\* The first DKIM-Signature header of the list, if any.
FirstSignatureHeader(headers) ==
    LET found == {j \in 1..Len(headers) :
                     EqIgnoreAsciiCase(StripWhitespace(headers[j].name), DkimSignatureName)}
    IN IF found = {} THEN None
       ELSE Some(headers[CHOOSE j \in found : \A other \in found : j <= other])

\* One tag of the value h on the way to its b= tag.
BlankStep(h, st, turn) ==
    IF st.done THEN st
    ELSE LET k == Key(h, st.pos) IN
         IF k.key = None THEN [st EXCEPT !.done = TRUE]
         ELSE IF Unwrap(k.key) = B
         THEN [st EXCEPT !.done = TRUE,
                         !.out = Slice(h, 0, k.pos) \o Slice(h, Find(h, k.pos, SEMI), Len(h))]
         ELSE [st EXCEPT !.pos = AfterTag(h, k.pos)]

\* The value of a DKIM-Signature header with its b= value blanked out: no
\* byte between the '=' of the b tag and the ';' that ends it.
BlankSignature(h) ==
    LET Turn(st, turn) == BlankStep(h, st, turn)
    IN FoldRange(Turn, [pos |-> 0, out |-> h, done |-> FALSE], 1, CountEquals(h) + 1).out

\* s without the CRLF it ends in, if it ends in one.
WithoutFinalCrlf(s) ==
    IF Len(s) >= 2 /\ s[Len(s) - 1] = CR /\ s[Len(s)] = LF THEN SubSeq(s, 1, Len(s) - 2) ELSE s

\* The DKIM-Signature header as the header hash is fed it at the end.
SignatureHeaderForHash(ch, name, value) ==
    LET blanked == BlankSignature(value)
    IN IF ch = "Relaxed" THEN HeaderRelaxed(name, blanked)
       ELSE HeaderSimple(name, WithoutFinalCrlf(blanked))

AT == 64
DOT == 46

\* The domain part of i is d or a subdomain of d. The domain part is what
\* follows the last '@', without the '>' that closes an address in angle
\* brackets: the AUID "John Doe" <jdoe@example.com> is one of example.com
\* (tests::dkim_sign_verify, sign.rs:441-455).
AuidMatches(i, d) ==
    LET ats == {k \in 1..Len(i) : i[k] = AT}
        after == IF ats = {} THEN i
                 ELSE SubSeq(i, (CHOOSE k \in ats : \A other \in ats : other <= k) + 1, Len(i))
        domain == IF after # <<>> /\ after[Len(after)] = Ord(">")
                  THEN SubSeq(after, 1, Len(after) - 1) ELSE after
    IN \/ EqIgnoreAsciiCase(domain, d)
       \/ /\ Len(domain) > Len(d) + 1
          /\ EqIgnoreAsciiCase(SubSeq(domain, Len(domain) - Len(d), Len(domain)), <<DOT>> \o d)

\* The signature b is the one the private key of the record's key gives for the digest.
KeyVerify(record, digest, b) == record.p # None /\ b = <<Unwrap(record.p)>> \o digest

\* The same with the l= limit left out of account.
BodyToHashWhole(canonical_body, l) == canonical_body

\* The first l bytes of the canonicalized body when l > 0, all of it otherwise.
BodyToHash(canonical_body, l) ==
    IF l > 0 /\ l < Len(canonical_body) THEN SubSeq(canonical_body, 1, l) ELSE canonical_body

\* The same with a signature expired from the second x on, not after it.
VerifyExpiredAtX(signature, signature_header, record, headers, body, now) ==
    IF signature.x > 0 /\ now >= signature.x THEN Err("SignatureExpired")
    ELSE IF signature.i # <<>> /\ ~AuidMatches(signature.i, signature.d) THEN Err("FailedAUIDMatch")
    ELSE IF record.p = None THEN Err("RevokedPublicKey")
    ELSE LET hash == HashOf(signature.a)
             hashed_body == BodyToHash(CanonicalizeBody(signature.cb, body), signature.l)
             body_digest == Finalize(hash, hashed_body)
         IN IF body_digest # signature.bh THEN Err("BodyHashMismatch")
            ELSE LET picked == SelectHeaders(headers, signature.h)
                     fed == FeedHeaders(signature.ch, picked)
                     last == SignatureHeaderForHash(signature.ch, signature_header.name,
                                                    signature_header.value)
                     digest == Finalize(hash, fed \o last)
                 IN IF KeyVerify(record, digest, signature.b) THEN Ok("Verified")
                    ELSE Err("FailedVerification")

\* verify(signature, record) on the headers and the body, at the time now.
Verify(signature, signature_header, record, headers, body, now) ==
    IF signature.x > 0 /\ now > signature.x THEN Err("SignatureExpired")
    ELSE IF signature.i # <<>> /\ ~AuidMatches(signature.i, signature.d) THEN Err("FailedAUIDMatch")
    ELSE IF record.p = None THEN Err("RevokedPublicKey")
    ELSE LET hash == HashOf(signature.a)
             hashed_body == BodyToHash(CanonicalizeBody(signature.cb, body), signature.l)
             body_digest == Finalize(hash, hashed_body)
         IN IF body_digest # signature.bh THEN Err("BodyHashMismatch")
            ELSE LET picked == SelectHeaders(headers, signature.h)
                     fed == FeedHeaders(signature.ch, picked)
                     last == SignatureHeaderForHash(signature.ch, signature_header.name,
                                                    signature_header.value)
                     digest == Finalize(hash, fed \o last)
                 IN IF KeyVerify(record, digest, signature.b) THEN Ok("Verified")
                    ELSE Err("FailedVerification")

\* next_signature() and then verify() on the message m, as test::verify drives them.
VerifyMessage(m, record, now) ==
    The({The({IF found = None THEN Err("NoSignature")
              ELSE The({IF ~parsed.ok THEN parsed
                        ELSE Verify(parsed.val, Unwrap(found), record, collected.headers,
                                    collected.body, now) :
                        parsed \in {SignatureParse(Unwrap(found).value)}}) :
              found \in {FirstSignatureHeader(collected.headers)}}) :
         collected \in {CollectHeaders(m)}})

----------------------------------------------------------------------------
(* Signing, writing the header, parsing it and verifying it *)

\* The call sign(message).
SignCall ==
    /\ sg_signer # None
    /\ sg_sig = None
    /\ sg_sig' = Some(Sign(Unwrap(sg_signer), message, sg_now))
    /\ UNCHANGED <<message, splitVars, classVars, parseVars,
                   sg_signer, sg_now, sg_header, sg_parsed, sg_verified>>

\* The call write_header (to_header) on the Signature that sign returned.
WriteHeaderCall ==
    /\ sg_sig # None
    /\ Unwrap(sg_sig).ok
    /\ sg_header = None
    /\ sg_header' = Some(SignatureWrite(Unwrap(sg_sig).val, TRUE))
    /\ UNCHANGED <<message, splitVars, classVars, parseVars,
                   sg_signer, sg_now, sg_sig, sg_parsed, sg_verified>>

\* Signature::parse on the value of the header written.
ParseHeaderCall ==
    /\ sg_header # None
    /\ sg_parsed = None
    /\ \E value \in {CollectHeaders(Unwrap(sg_header)).headers[1].value} :
          sg_parsed' = Some(SignatureParse(value))
    /\ UNCHANGED <<message, splitVars, classVars, parseVars,
                   sg_signer, sg_now, sg_sig, sg_header, sg_verified>>

\* The record that holds the public key of the signer's private key.
MatchingRecord == [p |-> Some(Unwrap(Unwrap(sg_signer).private_key).id)]

\* The header is put before the message, and the whole is verified.
VerifyCall ==
    /\ sg_parsed # None
    /\ sg_verified = None
    /\ \E signed \in {Unwrap(sg_header) \o message} :
          sg_verified' = Some(VerifyMessage(signed, MatchingRecord, sg_now))
    /\ UNCHANGED <<message, splitVars, classVars, parseVars,
                   sg_signer, sg_now, sg_sig, sg_header, sg_parsed>>

\* The longest header name of the messages signed.
MaxNameLen == 74

\* A header name of n bytes.
NameOfLen(n) == [k \in 1..n |-> IF k = 1 THEN Ord("X") ELSE IF k = 2 THEN Ord("-") ELSE Ord("a")]

FromName == Str(<<"F", "r", "o", "m">>)

ToName == Str(<<"T", "o">>)

\* The lists of header names to sign.
SignHeaderLists ==
    {<<FromName>>, <<NameOfLen(MaxNameLen)>>, <<NameOfLen(MaxNameLen - 1)>>,
     <<FromName, NameOfLen(MaxNameLen)>>, <<ToName>>}

ExOrg == Str(<<"e", "x", ".", "o", "r", "g">>)

\* The AUIDs: none, the domain alone, one with a space, one with an '=', and
\* one long enough for the i= tag to be folded.
Auids ==
    {<<>>,
     <<AT>> \o ExOrg,
     Str(<<"a", " ", "b", "@">>) \o ExOrg,
     Str(<<"a", "=", "4", "1", "@">>) \o ExOrg,
     [k \in 1..70 |-> Ord("u")] \o <<AT>> \o ExOrg}

\* The keys: an RSA key used with each of its two algorithms, an Ed25519 key.
KeysAndAlgorithms ==
    {[a |-> "RsaSha256", private_key |-> Some([kind |-> "Rsa", id |-> 1])],
     [a |-> "RsaSha1", private_key |-> Some([kind |-> "Rsa", id |-> 1])],
     [a |-> "Ed25519Sha256", private_key |-> Some([kind |-> "Ed25519", id |-> 2])]}

\* Bodies, with the body_length flag and the expiration they are signed with.
Bodies ==
    {[body |-> Str(<<"h", "i">>) \o <<CR, LF>>, l |-> FALSE, x |-> 0],
     [body |-> Str(<<"a", " ", " ", "b", " ">>) \o <<CR, LF, CR, LF>>, l |-> TRUE, x |-> 100],
     [body |-> <<>>, l |-> TRUE, x |-> 0]}

\* A message with a From header and a header of every other name of the list.
MessageWith(names, body) ==
    LET Put(out, k) ==
            IF names[k] \in {FromName, ToName} THEN out
            ELSE out \o names[k] \o <<COLON, SP, Ord("v"), CR, LF>>
    IN FoldRange(Put, FromName \o <<COLON, SP, Ord("a"), CR, LF>>, 1, Len(names))
       \o <<CR, LF>> \o body

InitSign ==
    /\ \E names \in SignHeaderLists, i \in Auids, key \in KeysAndAlgorithms, b \in Bodies,
          ch \in Canonicalizations, cb \in Canonicalizations :
          /\ sg_signer = Some([a |-> key.a, private_key |-> key.private_key,
                               sign_headers |-> names, cb |-> cb, ch |-> ch,
                               d |-> ExOrg, s |-> Str(<<"s", "e", "l">>), i |-> i,
                               l |-> b.l, x |-> b.x])
          /\ message = MessageWith(names, b.body)
    /\ sg_now = 1000
    /\ sg_sig = None
    /\ sg_header = None
    /\ sg_parsed = None
    /\ sg_verified = None
    /\ hi = HeaderIteratorNew
    /\ hi_items = <<>>
    /\ hi_stop = None
    /\ hp = HeaderParserNew
    /\ hp_items = <<>>
    /\ cl_name = 0
    /\ sp_choice = None
    /\ sp_header = <<>>
    /\ sp_result = None

NextSign == SignCall \/ WriteHeaderCall \/ ParseHeaderCall \/ VerifyCall

SpecSign == InitSign /\ [][NextSign]_vars

\* The Signature that sign returned.
Signed == Unwrap(sg_sig).val

\* C2: Signature::parse of the value of the header written for a Signature
\* that sign returned succeeds with the same v, a, d, s, i, h, t, x, l, ch and
\* cb, and with b and bh the bytes that the base64 text written stands for.
C2_EmitParseRoundTrip ==
    sg_parsed # None =>
        /\ Unwrap(sg_parsed).ok
        /\ LET parsed == Unwrap(sg_parsed).val IN
           /\ parsed.v = Signed.v /\ parsed.a = Signed.a
           /\ parsed.d = Signed.d /\ parsed.s = Signed.s
           /\ parsed.i = Signed.i
           /\ parsed.h = Signed.h
           /\ parsed.t = Signed.t /\ parsed.x = Signed.x /\ parsed.l = Signed.l
           /\ parsed.ch = Signed.ch /\ parsed.cb = Signed.cb
           /\ Some(parsed.b) = Base64Decode(Signed.b)
           /\ Some(parsed.bh) = Base64Decode(Signed.bh)

\* C1: the header written for the Signature that sign returned, put before
\* the message, is found and verifies against the record of the matching key.
C1_SignVerifyRoundTrip ==
    sg_verified # None => Unwrap(sg_verified) = Ok("Verified")

----------------------------------------------------------------------------
(* algorithm() on a= values written from the three names *)

\* The iterators of headers.rs are not in use.
NoSplitting ==
    /\ message = <<>>
    /\ hi = HeaderIteratorNew
    /\ hi_items = <<>>
    /\ hi_stop = None
    /\ hp = HeaderParserNew
    /\ hp_items = <<>>
    /\ cl_name = 0

\* No signer is set up.
NoSigning ==
    /\ sg_signer = None
    /\ sg_now = 0
    /\ sg_sig = None
    /\ sg_header = None
    /\ sg_parsed = None
    /\ sg_verified = None

\* The call algorithm() with the cursor at the start of the value sp_header.
AlgorithmCall ==
    /\ sp_result = None
    /\ sp_result' = Some(Algorithm(sp_header, 0))
    /\ UNCHANGED <<message, splitVars, classVars, sp_choice, sp_header, signVars>>

RsaSha1Name == Str(<<"r", "s", "a", "-", "s", "h", "a", "1">>)

RsaSha256Name == Str(<<"r", "s", "a", "-", "s", "h", "a", "2", "5", "6">>)

Ed25519Sha256Name ==
    Str(<<"e", "d", "2", "5", "5", "1", "9", "-", "s", "h", "a", "2", "5", "6">>)

AlgorithmNames == {RsaSha1Name, RsaSha256Name, Ed25519Sha256Name}

\* The names and their prefixes (the empty one too), in letters of either case.
AlgorithmStems ==
    UNION {UNION {CaseVariants(SubSeq(name, 1, k)) : k \in 0..Len(name)} :
           name \in AlgorithmNames}

\* What follows the stem: nothing, the ';' that ends the tag, more characters.
AlgorithmTails ==
    {<<>>, <<SEMI>>, Str(<<"1">>), Str(<<"6">>), Str(<<"x">>), Str(<<"-">>), <<SP>>,
     <<SP, SEMI>>, <<SEMI, Ord("x")>>, <<HT, Ord("1")>>, <<CR, LF, HT, SEMI, Ord("1")>>}

InitAlgorithm ==
    /\ \E stem \in AlgorithmStems, tail \in AlgorithmTails, lead \in {<<>>, <<SP>>} :
          /\ sp_choice = Some([stem |-> stem, tail |-> tail])
          /\ sp_header = lead \o stem \o tail
    /\ sp_result = None
    /\ NoSplitting
    /\ NoSigning

NextAlgorithm == AlgorithmCall

SpecAlgorithm == InitAlgorithm /\ [][NextAlgorithm]_vars

\* The a= value: the bytes before the first ';', white space taken out, in lower case.
AlgorithmValue(h) == LowerSeq(StripWhitespace(RawTag(h, 0)))

\* C11: algorithm() returns RsaSha1, RsaSha256 or Ed25519Sha256 exactly when the
\* value (up to the ';' or the end, white space aside, in either case) is
\* rsa-sha1, rsa-sha256 or ed25519-sha256; for every other value, the empty one,
\* a prefix of a name and a name with more characters included, it returns
\* UnsupportedAlgorithm.
C11_AlgorithmNames ==
    sp_result # None =>
        Unwrap(sp_result).res =
            (IF AlgorithmValue(sp_header) = RsaSha1Name THEN Ok("RsaSha1")
             ELSE IF AlgorithmValue(sp_header) = RsaSha256Name THEN Ok("RsaSha256")
             ELSE IF AlgorithmValue(sp_header) = Ed25519Sha256Name THEN Ok("Ed25519Sha256")
             ELSE Err("UnsupportedAlgorithm"))

\* rsa-sha2561 has been rejected.
C11_Witness ==
    /\ sp_header = RsaSha256Name \o Str(<<"1">>)
    /\ sp_result # None
    /\ Unwrap(sp_result).res = Err("UnsupportedAlgorithm")

----------------------------------------------------------------------------
(* Record::parse, src/src/dkim/parse.rs lines 195-272                        *)

P == Str(<<"p">>)
K == Str(<<"k">>)

\* The bits of the flags of a record (R_HASH_SHA1 .. R_FLAG_MATCH_DOMAIN): six
\* bits, a different one for every token.
RecordFlag ==
    [sha1 |-> 1, sha256 |-> 2, all |-> 4, email |-> 8, testing |-> 16, match_domain |-> 32]

\* impl ItemParser for HashAlgorithm
HashAlgorithmParse(bytes) ==
    IF EqIgnoreAsciiCase(bytes, Str(<<"s", "h", "a", "2", "5", "6">>)) THEN Some(RecordFlag.sha256)
    ELSE IF EqIgnoreAsciiCase(bytes, Str(<<"s", "h", "a", "1">>)) THEN Some(RecordFlag.sha1)
    ELSE None

\* The flag tokens matched as they are written, letters of the other case not taken.
FlagParseExactCase(bytes) ==
    IF bytes = Str(<<"y">>) THEN Some(RecordFlag.testing)
    ELSE IF bytes = Str(<<"s">>) THEN Some(RecordFlag.match_domain)
    ELSE None

\* impl ItemParser for Flag
FlagParse(bytes) ==
    IF EqIgnoreAsciiCase(bytes, Str(<<"y">>)) THEN Some(RecordFlag.testing)
    ELSE IF EqIgnoreAsciiCase(bytes, Str(<<"s">>)) THEN Some(RecordFlag.match_domain)
    ELSE None

\* impl ItemParser for Service
ServiceParse(bytes) ==
    IF bytes = Str(<<"*">>) THEN Some(RecordFlag.all)
    ELSE IF EqIgnoreAsciiCase(bytes, Str(<<"e", "m", "a", "i", "l">>)) THEN Some(RecordFlag.email)
    ELSE None

\* T::parse(bytes) for the item type T
ItemParse(type, bytes) ==
    CASE type = "HashAlgorithm" -> HashAlgorithmParse(bytes)
      [] type = "Flag" -> FlagParse(bytes)
      [] type = "Service" -> ServiceParse(bytes)

\* One token of flags::<T>(): its bit is or-ed in when T knows the token.
FlagsStep(type, tokens, flags, n) ==
    IF tokens[n] = <<>> THEN flags
    ELSE The({IF item = None THEN flags ELSE ByteOr(flags, Unwrap(item)) :
              item \in {ItemParse(type, tokens[n])}})

\* flags::<T>(): the colon-separated tokens of the value, white space taken
\* out, each mapped by T to its bit; the ';' that ends the value is consumed.
Flags(type, h, pos) ==
    LET Turn(flags, n) ==
            FlagsStep(type, SplitOn(StripWhitespace(RawTag(h, pos)), COLON), flags, n)
    IN [val |-> FoldRange(Turn, 0, 1,
                          Len(SplitOn(StripWhitespace(RawTag(h, pos)), COLON))),
        pos |-> AfterTag(h, pos)]

\* The key material of the model: <<1, id>> stands for the DER of the RSA public
\* key id, <<2, id>> for the 32 bytes of the Ed25519 public key id.
RsaFromPublicKeyDer(bytes) ==
    IF Len(bytes) = 2 /\ bytes[1] = 1 THEN Ok(bytes[2]) ELSE Err("PKCS")

Ed25519FromBytes(bytes) ==
    IF Len(bytes) = 2 /\ bytes[1] = 2 THEN Ok(bytes[2]) ELSE Err("Ed25519Signature")

\* Record { v: Version::Dkim1, p: PublicKey::Revoked, f: 0 }; a revoked key is None.
RecordNew == [v |-> "Dkim1", p |-> None, f |-> 0]

RecordFailed(st, error, pos) == [st EXCEPT !.done = TRUE, !.err = Some(error), !.pos = pos]

\* The rest of a key type after its first letter, then the end of the tag.
KeyTypeNamed(h, st, pos, rest, type) ==
    The({IF ~m.ok THEN RecordFailed(st, "UnsupportedKeyType", m.pos)
         ELSE The({IF e.ok THEN [st EXCEPT !.k = type, !.pos = e.pos]
                   ELSE RecordFailed(st, "UnsupportedKeyType", e.pos) :
                   e \in {SeekTagEnd(h, m.pos)}}) :
         m \in {MatchBytes(h, pos, rest)}})

\* The arm K of the match (lines 223-246).
KeyTypeTag(h, st, pos) ==
    The({IF n.val = None THEN [st EXCEPT !.pos = n.pos]
         ELSE IF Unwrap(n.val) \in {Ord("r"), Ord("R")}
         THEN KeyTypeNamed(h, st, n.pos, Str(<<"s", "a">>), "Rsa")
         ELSE IF Unwrap(n.val) \in {Ord("e"), Ord("E")}
         THEN KeyTypeNamed(h, st, n.pos, Str(<<"d", "2", "5", "5", "1", "9">>), "Ed25519")
         ELSE IF Unwrap(n.val) = SEMI THEN [st EXCEPT !.pos = n.pos]
         ELSE RecordFailed(st, "UnsupportedKeyType", n.pos) :
         n \in {NextSkipWhitespaces(h, pos)}})

\* The arm V of the match (lines 210-214).
RecordVersionTag(h, st, pos) ==
    The({IF ~m.ok THEN RecordFailed(st, "UnsupportedRecordVersion", m.pos)
         ELSE The({IF e.ok THEN [st EXCEPT !.pos = e.pos]
                   ELSE RecordFailed(st, "UnsupportedRecordVersion", e.pos) :
                   e \in {SeekTagEnd(h, m.pos)}}) :
         m \in {MatchBytes(h, pos, Str(<<"D", "K", "I", "M", "1">>))}})

\* One turn of the loop `while let Some(key) = header.key()`.
RecordParseStep(h, st, turn) ==
    IF st.done THEN st
    ELSE The({
         IF k.key = None THEN [st EXCEPT !.done = TRUE, !.pos = k.pos]
         ELSE LET key == Unwrap(k.key) IN
              IF key = V THEN RecordVersionTag(h, st, k.pos)
              ELSE IF key = H
              THEN The({[st EXCEPT !.record.f = ByteOr(@, r.val), !.pos = r.pos] :
                        r \in {Flags("HashAlgorithm", h, k.pos)}})
              ELSE IF key = P
              THEN The({[st EXCEPT !.public_key = UnwrapOr(r.val, <<>>), !.pos = r.pos] :
                        r \in {Base64DecodeStream(h, k.pos)}})
              ELSE IF key = S
              THEN The({[st EXCEPT !.record.f = ByteOr(@, r.val), !.pos = r.pos] :
                        r \in {Flags("Service", h, k.pos)}})
              ELSE IF key = T
              THEN The({[st EXCEPT !.record.f = ByteOr(@, r.val), !.pos = r.pos] :
                        r \in {Flags("Flag", h, k.pos)}})
              ELSE IF key = K THEN KeyTypeTag(h, st, k.pos)
              ELSE [st EXCEPT !.pos = Ignore(h, k.pos)] :
         k \in {Key(h, st.pos)}})

\* The same without the test `if !public_key.is_empty()`.
RecordWithKeyAlwaysDecoded(record, k, public_key) ==
    The({IF key.ok THEN Ok([record EXCEPT !.p = Some(key.val)]) ELSE key :
         key \in {IF k = "Ed25519" THEN Ed25519FromBytes(public_key)
                  ELSE RsaFromPublicKeyDer(public_key)}})

\* The key of the record from the bytes of p and the key type (lines 253-267).
RecordWithKey(record, k, public_key) ==
    IF public_key = <<>> THEN Ok(record)
    ELSE The({IF key.ok THEN Ok([record EXCEPT !.p = Some(key.val)]) ELSE key :
              key \in {IF k = "Ed25519" THEN Ed25519FromBytes(public_key)
                       ELSE RsaFromPublicKeyDer(public_key)}})

\* Record::parse(header)
RecordParse(h) ==
    LET Turn(st, turn) == RecordParseStep(h, st, turn)
    IN The({IF end.err # None THEN Err(Unwrap(end.err))
            ELSE RecordWithKey(end.record, end.k, end.public_key) :
            end \in {FoldRange(Turn, [pos |-> 0, record |-> RecordNew, k |-> "None",
                                      public_key |-> <<>>, err |-> None, done |-> FALSE],
                               1, CountEquals(h) + 1)}})

----------------------------------------------------------------------------
(* Record::parse on records written from a choice of tags *)

\* The call Record::parse(sp_header).
RecordParseCall ==
    /\ sp_result = None
    /\ sp_result' = Some(RecordParse(sp_header))
    /\ UNCHANGED <<message, splitVars, classVars, sp_choice, sp_header, signVars>>

\* The values of the h= tag of a record (None: no such tag), each with the
\* flags that the tokens it holds stand for.
HashChoices ==
    {[text |-> None, bits |-> {}],
     [text |-> Some(Str(<<"s", "h", "a", "1">>)), bits |-> {"sha1"}],
     [text |-> Some(Str(<<"s", "h", "a", "2", "5", "6">>)), bits |-> {"sha256"}],
     [text |-> Some(Str(<<"s", "h", "a", "1", ":", "s", "h", "a", "2", "5", "6">>)), bits |-> {"sha1", "sha256"}],
     [text |-> Some(Str(<<" ", "S", "H", "A", "1", " ", ":", " ", "o", "t", "h", "e", "r">>)), bits |-> {"sha1"}],
     [text |-> Some(Str(<<"s", "h", "a", " ", "2", "5", "6", ":", ":">>)), bits |-> {"sha256"}],
     [text |-> Some(Str(<<"m", "d", "5">>)), bits |-> {}],
     [text |-> Some(Str(<<"s", "h", "a", "1", ";", "h", "=", "S", "h", "a", "2", "5", "6">>)), bits |-> {"sha1", "sha256"}]}

\* The values of the s= tag.
ServiceChoices ==
    {[text |-> None, bits |-> {}],
     [text |-> Some(Str(<<"*">>)), bits |-> {"all"}],
     [text |-> Some(Str(<<"e", "m", "a", "i", "l">>)), bits |-> {"email"}],
     [text |-> Some(Str(<<"*", ":", "E", "M", "A", "I", "L">>)), bits |-> {"all", "email"}],
     [text |-> Some(Str(<<"x", ":", " ", "*", " ", ":">>)), bits |-> {"all"}],
     [text |-> Some(Str(<<"e", " ", "m", "a", "i", "l", ";", "s", "=", "*", "*">>)), bits |-> {"email"}]}

\* The values of the t= tag.
FlagChoices ==
    {[text |-> None, bits |-> {}],
     [text |-> Some(Str(<<"y">>)), bits |-> {"testing"}],
     [text |-> Some(Str(<<"s">>)), bits |-> {"match_domain"}],
     [text |-> Some(Str(<<"Y", ":", "S">>)), bits |-> {"testing", "match_domain"}],
     [text |-> Some(Str(<<" ", "y", " ", ":", " ", "s", " ", ":", "y", "y", ":", "x">>)), bits |-> {"testing", "match_domain"}],
     [text |-> Some(<<>>), bits |-> {}]}

\* The values of the n= tag.
NoteChoices ==
    {[text |-> None, bits |-> {}],
     [text |-> Some(Str(<<"s", "h", "a", "1", ":", "y", ":", "*", ":", "e", "m", "a", "i", "l">>)), bits |-> {}]}

\* The p= value of a public key: the base64 of its key material.
KeyText(kind, id) == Base64Encode(<<kind, id>>)

\* A p= value with a byte that is not of the base64 alphabet.
BadKeyText == Str(<<"A", "Q", "!", "E">>)

\* The values of the v=, k= and p= tags of records that parse.
PlainChoices ==
    {[v |-> v, k |-> k, p |-> p] :
        v \in {None, Some(Str(<<"D", "K", "I", "M", "1">>))},
        k \in {None, Some(Str(<<"r", "s", "a">>))},
        p \in {None, Some(KeyText(1, 1)), Some(BadKeyText)}}

\* name=value; or nothing when the tag is absent
RecordTag(name, value) ==
    IF value = None THEN <<>> ELSE name \o <<EQUALS>> \o Unwrap(value) \o <<SEMI, SP>>

\* The record of a choice, its tags in the order v k p t s h n or in the
\* opposite order.
RecordText(c) ==
    LET tags == <<RecordTag(V, c.v), RecordTag(K, c.k), RecordTag(P, c.p),
                  RecordTag(T, c.t.text), RecordTag(S, c.s.text), RecordTag(H, c.h.text),
                  RecordTag(Str(<<"n">>), c.n.text)>>
    IN IF c.forward THEN Concat(tags)
       ELSE Concat([j \in 1..Len(tags) |-> tags[Len(tags) + 1 - j]])

InitRecord ==
    /\ \E plain \in PlainChoices, h \in HashChoices, s \in ServiceChoices, t \in FlagChoices,
          n \in NoteChoices, forward \in BOOLEAN :
          \E c \in {[v |-> plain.v, k |-> plain.k, p |-> plain.p, h |-> h, s |-> s, t |-> t,
                      n |-> n, forward |-> forward]} :
             /\ sp_choice = Some(c)
             /\ sp_header = RecordText(c)
    /\ sp_result = None
    /\ NoSplitting
    /\ NoSigning

NextRecord == RecordParseCall

SpecRecord == InitRecord /\ [][NextRecord]_vars

\* The flags whose bit is set in the bitmask f.
FlagsSet(f) == {name \in DOMAIN RecordFlag : (f \div RecordFlag[name]) % 2 = 1}

\* C12: the bitmask f of the record parsed holds exactly the bits of the tokens
\* sha1, sha256 of h=, *, email of s= and y, s of t= (in either case, white
\* space aside); other tokens, empty items and the n= tag give no bit, and
\* without these tags f = 0.
C12_RecordFlags ==
    sp_result # None =>
        /\ Unwrap(sp_result).ok
        /\ Unwrap(sp_result).val.f < 64
        /\ FlagsSet(Unwrap(sp_result).val.f)
              = Unwrap(sp_choice).h.bits \cup Unwrap(sp_choice).s.bits \cup Unwrap(sp_choice).t.bits

\* A record with a note and with upper case tokens among spaces has been parsed
\* to all six bits.
C12_Witness ==
    /\ sp_result # None
    /\ Unwrap(sp_result).ok
    /\ Unwrap(sp_result).val.f = 63
    /\ Unwrap(sp_choice).n.text # None
    /\ Unwrap(sp_choice).t.text = Some(Str(<<"Y", ":", "S">>))
    /\ Unwrap(sp_choice).h.text = Some(Str(<<"s", "h", "a", "1", ";", "h", "=", "S", "h", "a", "2", "5", "6">>))

----------------------------------------------------------------------------
(* Verifying against the record parsed: revoked keys *)

\* The values of the v= tag of the records verified against.
VersionChoices == {None, Some(Str(<<"D", "K", "I", "M", "1">>)), Some(Str(<<"D", "K", "I", "M", "2">>))}

\* The values of the k= tag.
KeyTypeChoices ==
    {None, Some(<<>>), Some(Str(<<"r", "s", "a">>)), Some(Str(<<"e", "d", "2", "5", "5", "1", "9">>)),
     Some(Str(<<"d", "s", "a">>))}

\* The values of the p= tag that hold no key.
NoKeyChoices == {None, Some(<<>>), Some(<<SP>>)}

\* The values of the p= tag.
PublicKeyChoices == NoKeyChoices \cup {Some(KeyText(1, 1)), Some(KeyText(2, 2))}

OtherOrg == Str(<<"o", "t", "h", "e", "r", ".", "o", "r", "g">>)

\* The seconds between signing and verifying.
Delays == {0, 200}

\* The record of a choice of v, k and p, written p first or p last.
RevokedText(c) ==
    IF c.forward THEN RecordTag(V, c.v) \o RecordTag(K, c.k) \o RecordTag(P, c.p)
    ELSE RecordTag(P, c.p) \o RecordTag(K, c.k) \o RecordTag(V, c.v)

InitRevoked ==
    /\ \E v \in VersionChoices, k \in KeyTypeChoices, p \in PublicKeyChoices,
          later \in Delays, forward \in BOOLEAN :
          \E c \in {[v |-> v, k |-> k, p |-> p, later |-> later, forward |-> forward]} :
             /\ sp_choice = Some(c)
             /\ sp_header = RevokedText(c)
    /\ sp_result = None
    /\ \E key \in KeysAndAlgorithms, i \in {<<>>, <<AT>> \o OtherOrg}, x \in {0, 100} :
          sg_signer = Some([a |-> key.a, private_key |-> key.private_key,
                            sign_headers |-> <<FromName>>, cb |-> "Relaxed", ch |-> "Relaxed",
                            d |-> ExOrg, s |-> Str(<<"s", "e", "l">>), i |-> i,
                            l |-> FALSE, x |-> x])
    /\ message = MessageWith(<<FromName>>, Str(<<"h", "i">>) \o <<CR, LF>>)
    /\ sg_now = 1000
    /\ sg_sig = None
    /\ sg_header = None
    /\ sg_parsed = None
    /\ sg_verified = None
    /\ hi = HeaderIteratorNew
    /\ hi_items = <<>>
    /\ hi_stop = None
    /\ hp = HeaderParserNew
    /\ hp_items = <<>>
    /\ cl_name = 0

\* The header is put before the message, and the whole is verified against the
\* record that Record::parse returned, some seconds after signing.
RecordVerifyCall ==
    /\ sp_result # None
    /\ Unwrap(sp_result).ok
    /\ sg_header # None
    /\ sg_verified = None
    /\ \E signed \in {Unwrap(sg_header) \o message} :
          sg_verified' = Some(VerifyMessage(signed, Unwrap(sp_result).val,
                                            sg_now + Unwrap(sp_choice).later))
    /\ UNCHANGED <<message, splitVars, classVars, parseVars,
                   sg_signer, sg_now, sg_sig, sg_header, sg_parsed>>

NextRevoked == RecordParseCall \/ SignCall \/ WriteHeaderCall \/ RecordVerifyCall

SpecRevoked == InitRevoked /\ [][NextRevoked]_vars

\* The record under parse has no key in p=.
NoKeyWritten == Unwrap(sp_choice).p \in NoKeyChoices

\* The record parsed is a revoked one.
RevokedParsed == sp_result # None /\ Unwrap(sp_result).ok /\ Unwrap(sp_result).val.p = None

\* The signature verified has not expired and its AUID is of the signing domain.
PlainSignature ==
    /\ Unwrap(sg_signer).x = 0 \/ Unwrap(sp_choice).later <= Unwrap(sg_signer).x
    /\ Unwrap(sg_signer).i = <<>>

\* C13 as stated: a record without a key in p= parses to a revoked key whatever
\* its k= tag is, and verify against a revoked record gives RevokedPublicKey.
C13_RevokedWhateverKeyType ==
    /\ (sp_result # None /\ NoKeyWritten /\ Unwrap(sp_choice).v # Some(Str(<<"D", "K", "I", "M", "2">>)))
          => RevokedParsed
    /\ (sg_verified # None /\ RevokedParsed) => sg_verified = Some(Err("RevokedPublicKey"))

\* C13: a record without a key in p=, whose v= is absent or DKIM1 and whose k=
\* is absent, empty, rsa or ed25519, parses to a revoked key; verify against a
\* revoked record never succeeds, and gives RevokedPublicKey for a signature
\* that has not expired and whose AUID is of the signing domain.
C13_RevokedNeverVerifies ==
    /\ (/\ sp_result # None
        /\ NoKeyWritten
        /\ Unwrap(sp_choice).v # Some(Str(<<"D", "K", "I", "M", "2">>))
        /\ Unwrap(sp_choice).k # Some(Str(<<"d", "s", "a">>)))
          => RevokedParsed
    /\ (sg_verified # None /\ RevokedParsed)
          => /\ ~Unwrap(sg_verified).ok
             /\ PlainSignature => sg_verified = Some(Err("RevokedPublicKey"))

\* A signature has been verified against a record with k=ed25519 and an empty
\* p=, and RevokedPublicKey was the answer.
C13_Witness ==
    /\ sg_verified = Some(Err("RevokedPublicKey"))
    /\ Unwrap(sp_choice).k = Some(Str(<<"e", "d", "2", "5", "5", "1", "9">>))
    /\ Unwrap(sp_choice).p = Some(<<>>)
    /\ RevokedParsed

----------------------------------------------------------------------------
(* sign under every configuration: names, domain, selector, key, body length *)

SubjectName == Str(<<"S", "u", "b", "j", "e", "c", "t">>)

MissingName == Str(<<"X", "-", "D", "o", "e", "s", "-", "N", "o", "t", "-", "E", "x", "i", "s", "t">>)

\* The lists of header names of headers(...); the message holds From, To and
\* Subject, in this order.
ConfiguredLists ==
    {<<>>, <<FromName>>, <<FromName, ToName, SubjectName>>, <<SubjectName, ToName, FromName>>,
     <<ToName, FromName>>, <<FromName, MissingName>>, <<MissingName>>,
     <<MissingName, ToName>>, <<Str(<<"f", "r", "o", "m">>), SubjectName>>}

\* The bodies, each with the decimal length of its two canonical forms.
BodyChoices ==
    {[body |-> Str(<<"h", "i">>) \o <<CR, LF>>, Simple |-> Str(<<"4">>), Relaxed |-> Str(<<"4">>)],
     [body |-> Str(<<"a", " ", " ", "b", " ">>) \o <<CR, LF, CR, LF>>,
      Simple |-> Str(<<"7">>), Relaxed |-> Str(<<"5">>)],
     [body |-> <<>>, Simple |-> Str(<<"2">>), Relaxed |-> Str(<<"0">>)]}

\* The message of test dkim_sign with another body.
MessageOf(body) ==
    FromName \o <<COLON, SP, Ord("a"), CR, LF>> \o ToName \o <<COLON, SP, Ord("b"), CR, LF>>
    \o SubjectName \o <<COLON, SP, Ord("c"), CR, LF>> \o <<CR, LF>> \o body

InitConfigured ==
    /\ \E names \in ConfiguredLists, d \in {<<>>, ExOrg}, s \in {<<>>, Str(<<"s", "e", "l">>)},
          key \in KeysAndAlgorithms, with_key \in BOOLEAN, b \in BodyChoices,
          cb \in Canonicalizations, l \in BOOLEAN :
          /\ sg_signer = Some([a |-> key.a,
                               private_key |-> IF with_key THEN key.private_key ELSE None,
                               sign_headers |-> names, cb |-> cb, ch |-> "Relaxed",
                               d |-> d, s |-> s, i |-> <<>>, l |-> l, x |-> 0])
          /\ message = MessageOf(b.body)
    /\ sg_now = 1000
    /\ sg_sig = None
    /\ sg_header = None
    /\ sg_parsed = None
    /\ sg_verified = None
    /\ hi = HeaderIteratorNew
    /\ hi_items = <<>>
    /\ hi_stop = None
    /\ hp = HeaderParserNew
    /\ hp_items = <<>>
    /\ cl_name = 0
    /\ sp_choice = None
    /\ sp_header = <<>>
    /\ sp_result = None

NextConfigured == SignCall \/ WriteHeaderCall

SpecConfigured == InitConfigured /\ [][NextConfigured]_vars

Signer == Unwrap(sg_signer)

\* C14: sign gives MissingParameters whenever the domain or the selector is
\* empty, no private key is set, or the list of headers to sign is empty.
C14_MissingParameters ==
    (/\ sg_sig # None
     /\ \/ Signer.d = <<>>
        \/ Signer.s = <<>>
        \/ Signer.private_key = None
        \/ Signer.sign_headers = <<>>)
       => sg_sig = Some(Err("MissingParameters"))

\* The names of the headers of the message, in lower case.
PresentNames == {LowerSeq(FromName), LowerSeq(ToName), LowerSeq(SubjectName)}

IsPresent(name) == LowerSeq(name) \in PresentNames

\* C17: h of the Signature returned is the list of names of headers(...), in
\* that order, without the names that the message does not hold.
C17_ConfiguredOrder ==
    (sg_sig # None /\ Unwrap(sg_sig).ok) => Signed.h = SelectSeq(Signer.sign_headers, IsPresent)

\* C18: a name that the message does not hold is not in h of the Signature and
\* does not make sign fail; when the message holds none of the names, sign
\* gives NoHeadersFound.
C18_MissingHeadersSkipped ==
    (sg_sig # None /\ Signer.d # <<>> /\ Signer.s # <<>>) =>
        IF \A k \in 1..Len(Signer.sign_headers) : ~IsPresent(Signer.sign_headers[k])
        THEN sg_sig = Some(Err("NoHeadersFound"))
        ELSE /\ Signer.private_key # None => Unwrap(sg_sig).ok
             /\ Unwrap(sg_sig).ok =>
                   /\ \A k \in 1..Len(Signed.h) : IsPresent(Signed.h[k])
                   /\ Len(Signed.h) = Cardinality({k \in 1..Len(Signer.sign_headers) :
                                                     IsPresent(Signer.sign_headers[k])})

\* sign has returned a Signature for a list that names a header the message
\* does not hold before one that it holds.
C18_Witness ==
    /\ sg_sig # None
    /\ Unwrap(sg_sig).ok
    /\ Signer.sign_headers = <<MissingName, ToName>>
    /\ Signed.h = <<ToName>>

\* The word w is in h at the place p (from 1).
OccursAt(h, p, w) == p + Len(w) - 1 <= Len(h) /\ SubSeq(h, p, p + Len(w) - 1) = w

\* The places of the header h where the tag l= starts, after a space or a tab.
BodyLengthTags(h) ==
    {p \in 2..Len(h) : h[p - 1] \in {SP, HT} /\ OccursAt(h, p, Str(<<"l", "=">>))}

----------------------------------------------------------------------------
(* The fields t and x of the Signature, on 64-bit values
   (src/src/dkim/sign.rs lines 182-183) *)

\* a + b on u64 (eight bytes, least significant first): the sum modulo 2^64,
\* and whether it overflowed.
U64Add(a, b) ==
    LET Turn(st, k) ==
            [bytes |-> Append(st.bytes, (a[k] + b[k] + st.carry) % 256),
             carry |-> (a[k] + b[k] + st.carry) \div 256]
        end == FoldRange(Turn, [bytes |-> <<>>, carry |-> 0], 1, 8)
    IN [val |-> end.bytes, overflow |-> end.carry > 0]

\* a > b on u64
U64Greater(a, b) ==
    \E k \in 1..8 : a[k] > b[k] /\ \A j \in (k + 1)..8 : a[j] = b[j]

\* The fields t and x that sign_ gives the Signature at the time now. The sum
\* now + self.x panics on overflow in a build with overflow checks and wraps
\* in a build without.
SignTimes(signer, now, overflow_checks) ==
    IF U64Greater(signer.x, U64Zero)
    THEN The({IF sum.overflow /\ overflow_checks THEN Err("panic")
              ELSE Ok([t |-> now, x |-> sum.val]) :
              sum \in {U64Add(now, signer.x)}})
    ELSE Ok([t |-> now, x |-> U64Zero])

\* The times and the expirations: the lowest byte, the six in the middle and
\* the highest are each 0, 1 or 255.
U64Choices ==
    {<<low, mid, mid, mid, mid, mid, mid, high>> :
        low \in {0, 1, 255}, mid \in {0, 1, 255}, high \in {0, 1, 255}}

\* sign at the time sg_now, for what it gives t and x.
SignTimesCall ==
    /\ sg_signer # None
    /\ sg_sig = None
    /\ \E overflow_checks \in BOOLEAN :
          sg_sig' = Some(SignTimes(Unwrap(sg_signer), sg_now, overflow_checks))
    /\ UNCHANGED <<message, splitVars, classVars, parseVars,
                   sg_signer, sg_now, sg_header, sg_parsed, sg_verified>>

InitExpiration ==
    /\ \E x \in U64Choices : sg_signer = Some([x |-> x])
    /\ sg_now \in U64Choices
    /\ sg_sig = None
    /\ sg_header = None
    /\ sg_parsed = None
    /\ sg_verified = None
    /\ NoSplitting
    /\ sp_choice = None
    /\ sp_header = <<>>
    /\ sp_result = None

NextExpiration == SignTimesCall

SpecExpiration == InitExpiration /\ [][NextExpiration]_vars

\* a - b on u64: the bytes of the difference; borrow tells a < b.
U64Sub(a, b) ==
    LET Turn(st, k) ==
            [bytes |-> Append(st.bytes, (a[k] - b[k] - st.borrow + 256) % 256),
             borrow |-> IF a[k] - b[k] - st.borrow < 0 THEN 1 ELSE 0]
        end == FoldRange(Turn, [bytes |-> <<>>, borrow |-> 0], 1, 8)
    IN [val |-> end.bytes, borrow |-> end.borrow > 0]

\* C15: whatever now and the expiration are, sign does not fail for them, t is
\* now, and x is now + expiration, later than t, when the expiration is not 0,
\* and 0 when it is.
C15_ExpirationTime ==
    sg_sig # None =>
        /\ Unwrap(sg_sig).ok
        /\ Signed.t = sg_now
        /\ IF Signer.x = U64Zero THEN Signed.x = U64Zero
           ELSE /\ U64Greater(Signed.x, Signed.t)
                /\ U64Sub(Signed.x, sg_now) = [val |-> Signer.x, borrow |-> FALSE]

----------------------------------------------------------------------------
(* The lines of the header written *)

\* The places of h (from 1) where a line starts: the first byte, and the byte
\* after each CRLF.
HeaderLineStarts(h) == {1} \cup {p + 2 : p \in {q \in 1..(Len(h) - 2) : h[q] = CR /\ h[q + 1] = LF}}

\* The number of bytes of the line that starts at s, its CRLF left out.
LineLength(h, s) ==
    Min({q \in s..(Len(h) + 1) : q = Len(h) + 1 \/ (q < Len(h) /\ h[q] = CR /\ h[q + 1] = LF)}) - s

\* C19: every line of the header that write_header gives is at most 76 bytes
\* long, and every line after the first starts with a TAB.
C19_LinesWithin76Columns ==
    sg_header # None =>
        \A s \in HeaderLineStarts(Unwrap(sg_header)) :
           /\ LineLength(Unwrap(sg_header), s) <= 76
           /\ s > 1 => Unwrap(sg_header)[s] = HT

----------------------------------------------------------------------------
(* What the header hash is fed last, and the header written *)

\* The last place of h (from 1) where the word w is.
LastPlace(h, w) ==
    CHOOSE p \in 1..Len(h) : OccursAt(h, p, w) /\ \A q \in (p + 1)..Len(h) : ~OccursAt(h, q, w)

\* The bytes of the DKIM-Signature header that sign_ fed the header hash: b
\* is the signature of the digest, the digest stands for all the bytes fed,
\* and the header is the last of them.
HashedSignature ==
    The({SubSeq(fed, LastPlace(LowerSeq(fed), HeaderNameForHash), Len(fed)) :
         fed \in {Unwrap(Base64Decode(Signed.b))}})

\* The bytes of h up to the '=' of its b tag.
UpToSignatureTag(h) == SubSeq(h, 1, LastPlace(h, Str(<<";", " ", "b", "=">>)) + 3)

\* s with every fold CRLF TAB made one space.
Unfolded(s) ==
    LET NotCrLf(b) == b \notin {CR, LF}
        kept == SelectSeq(s, NotCrLf)
    IN [k \in 1..Len(kept) |-> IF kept[k] = HT THEN SP ELSE kept[k]]

\* The header hashed ends in the empty b tag.
EndsInEmptyTag(h) == Len(h) >= 3 /\ SubSeq(h, Len(h) - 2, Len(h)) = Str(<<"b", "=", ";">>)

\* C20 as stated: what the header hash is fed last ends in b=; and is, up to
\* that b=, byte for byte the header written up to its b= value.
C20_HashedIsTheHeaderWritten ==
    sg_header # None =>
        The({/\ EndsInEmptyTag(hashed)
             /\ SubSeq(hashed, 1, Len(hashed) - 1) = UpToSignatureTag(Unwrap(sg_header)) :
             hashed \in {HashedSignature}})

\* C20: what the header hash is fed last ends in b=; with no CRLF after it;
\* up to that b= it is the header written up to its b= value when the header
\* canonicalization is simple, and when it is relaxed it is dkim-signature:
\* followed by what the header written holds after "DKIM-Signature: " up to
\* its b= value, each CRLF TAB made one space.
C20_HashedIsTheHeaderUnfolded ==
    sg_header # None =>
        The({/\ EndsInEmptyTag(hashed)
             /\ SubSeq(hashed, 1, Len(hashed) - 1) =
                   IF Signed.ch = "Simple" THEN written
                   ELSE HeaderNameForHash
                        \o Unfolded(SubSeq(written, Len(HeaderNameAsHeader) + 1, Len(written))) :
             hashed \in {HashedSignature}, written \in {UpToSignatureTag(Unwrap(sg_header))}})

\* A header has been written, with folds before its b tag, for a Signature
\* signed under relaxed header canonicalization with a long AUID.
C20_Witness ==
    /\ sg_header # None
    /\ Signed.ch = "Relaxed"
    /\ Len(Signed.i) > 70
    /\ Signed.b # <<>>
    /\ Cardinality(HeaderLineStarts(UpToSignatureTag(Unwrap(sg_header)))) > 3

----------------------------------------------------------------------------
(* HeaderIterator and HeaderParser on the same message *)

\* next() of the iterator and next() of the parser, one call of each, as
\* test header_iterator runs the two over each message.
BothNext ==
    /\ \E r \in {HeaderIteratorNextResult(message, hi)} :
          /\ hi' = [pos |-> r.pos, start_pos |-> r.start_pos]
          /\ hi_items' = IF r.item = None THEN hi_items ELSE Append(hi_items, Unwrap(r.item))
          /\ hi_stop' = IF r.item = None /\ hi_stop = None THEN Some(hi') ELSE hi_stop
    /\ \E r \in {HeaderParserNextResult(message, hp)} :
          /\ hp' = [pos |-> r.pos, start_pos |-> r.start_pos]
          /\ hp_items' = IF r.item = None THEN hp_items ELSE Append(hp_items, Unwrap(r.item))
    /\ UNCHANGED <<message, cl_name, parseVars, signVars>>

\* Messages with names that the parser recognises.
NamedMessages ==
    {Str(<<"F", "r", "o", "m", ":", " ", "a">>) \o <<CR, LF>>
       \o Str(<<"A", "R", "C", "-", "S", "e", "a", "l", ":", "b">>) \o <<LF, LF>>
       \o Str(<<"T", "o", ":", "c">>) \o <<LF>>,
     Str(<<"d", "k", "i", "m", "-", "s", "i", "g", "n", "a", "t", "u", "r", "e", " ", ":", "a">>)
       \o <<CR, LF, HT>> \o Str(<<"b">>) \o <<CR, LF>> \o Str(<<"c">>) \o <<LF>>
       \o Str(<<"T", "o", ":", "d">>) \o <<CR, LF, CR, LF>> \o Str(<<"e", ":", "f">>)}

InitBoth ==
    /\ message \in SeqsUpTo(SplitAlphabet, MaxMsgLen) \cup NamedMessages
    /\ hi = HeaderIteratorNew
    /\ hi_items = <<>>
    /\ hi_stop = None
    /\ hp = HeaderParserNew
    /\ hp_items = <<>>
    /\ cl_name = 0
    /\ sp_choice = None
    /\ sp_header = <<>>
    /\ sp_result = None
    /\ NoSigning

NextBoth == BothNext

SpecBoth == InitBoth /\ [][NextBoth]_vars

\* C24: call for call, HeaderParser yields what HeaderIterator yields, the
\* same name and value slices at the same place, is left at the same point
\* of the message and gives the same body_offset.
C24_SameSplit ==
    /\ hp = hi
    /\ Len(hp_items) = Len(hi_items)
    /\ \A k \in 1..Len(hi_items) :
          /\ hp_items[k].name = hi_items[k].name
          /\ hp_items[k].value = hi_items[k].value
          /\ hp_items[k].off = hi_items[k].off
    /\ BodyOffset(message, hp) = BodyOffset(message, hi)

\* The two have yielded a line without a colon, a From header and an ARC-Seal
\* header, or a DKIM-Signature header, and have come to the end of the headers.
C24_Witness ==
    /\ hi_stop # None
    /\ Len(hp_items) >= 2
    /\ \/ hp_items[1].header = "From" /\ hp_items[2].header = "As"
       \/ hp_items[1].header = "Ds" /\ hp_items[2].value = <<>>

\* The line of m that starts at s ends in an LF, is not empty, holds no colon
\* and is not followed by a line that starts with a space or a tab.
MalformedLineAt(m, s) ==
    /\ LFsFrom(m, s) # {}
    /\ \E p \in {Min(LFsFrom(m, s))} :
          /\ p > s
          /\ ~(p = s + 1 /\ m[s + 1] = CR)
          /\ \A c \in ColonsFrom(m, s) : c > p
          /\ (p + 1 = Len(m) \/ m[p + 2] \notin {SP, HT})

\* The line that starts at s, its LF included.
LineAt(m, s) == SubSeq(m, s + 1, Min(LFsFrom(m, s)) + 1)

\* C25: in the header block, a line that is not empty, holds no colon and is
\* not continued is yielded with the whole line, LF included, as its name and
\* an empty value (Other for the parser), the next call starting after it,
\* whether the line ends in LF or in CRLF.
C25_MalformedLineIsYielded ==
    [][(hi_stop = None /\ MalformedLineAt(message, hi.start_pos)) =>
          /\ hi_items' = Append(hi_items, [name |-> LineAt(message, hi.start_pos),
                                           value |-> <<>>, off |-> hi.start_pos])
          /\ hp_items' = Append(hp_items, [header |-> "Other",
                                           name |-> LineAt(message, hi.start_pos),
                                           value |-> <<>>, off |-> hi.start_pos])
          /\ hi'.start_pos = hi.start_pos + Len(LineAt(message, hi.start_pos))
          /\ hi'.pos = hi'.start_pos]_vars

\* C29: once next() has returned None, no later call of next(), of the
\* iterator or of the parser, yields anything, and body_offset stays what it was.
C29_NoneIsFinal ==
    [][hi_stop # None =>
          /\ hi_items' = hi_items
          /\ hp_items' = hp_items
          /\ BodyOffset(message, hi') = BodyOffset(message, hi)
          /\ BodyOffset(message, hp') = BodyOffset(message, hp)]_vars

----------------------------------------------------------------------------
(* The classifier on names that are, begin with or extend a recognised name *)

\* What is written after a recognised name: nothing, "-X", "x" or "s".
NameSuffixes ==
    {<<>>, Str(<<"-", "X">>), Str(<<"x">>), Str(<<"s">>)}

\* White space written before the name and between the name and the colon.
NamePaddings == {<<>>, <<SP>>, <<HT>>}

\* The name, every shorter beginning of it, and the name with a suffix.
NameEdits(name) ==
    {SubSeq(name, 1, k) : k \in 1..Len(name)} \cup {name \o suffix : suffix \in NameSuffixes}

\* The name as it is, all upper case or all lower case.
PlainCases(name) == {name, [i \in 1..Len(name) |-> Upper(name[i])], LowerSeq(name)}

InitNames ==
    /\ cl_name \in 1..Len(Recognised)
    /\ \E cased \in PlainCases(Recognised[cl_name].name) :
         \E written \in NameEdits(cased) :
            \E before \in NamePaddings, after \in NamePaddings :
               message = before \o written \o after \o <<COLON, SP, Ord("x"), CR, LF>>
    /\ hp = HeaderParserNew
    /\ hp_items = <<>>
    /\ hi = HeaderIteratorNew
    /\ hi_items = <<>>
    /\ hi_stop = None
    /\ sp_choice = None
    /\ sp_header = <<>>
    /\ sp_result = None
    /\ NoSigning

NextNames == HeaderParserNext

SpecNames == InitNames /\ [][NextNames]_vars

IsWhitespace(b) == b \in {SP, HT}

\* s without the spaces and tabs at its two ends.
RECURSIVE Trimmed(_)
Trimmed(s) ==
    IF s = <<>> THEN s
    ELSE IF IsWhitespace(s[1]) THEN Trimmed(Tail(s))
    ELSE IF IsWhitespace(s[Len(s)]) THEN Trimmed(SubSeq(s, 1, Len(s) - 1))
    ELSE s

\* The variant of the recognised name that the name is, letter for letter
\* whatever the case, once the white space around it is taken off.
ExactVariant(name) ==
    IF \E k \in 1..Len(Recognised) : LowerSeq(Recognised[k].name) = LowerSeq(Trimmed(name))
    THEN Recognised[CHOOSE k \in 1..Len(Recognised) :
                       LowerSeq(Recognised[k].name) = LowerSeq(Trimmed(name))].header
    ELSE "Other"

\* C26: a header is given the variant of a recognised name only when its name
\* is exactly that name, whatever the case and the white space around it; a
\* name that begins like a recognised name or extends one is Other.
C26_ExactNamesOnly ==
    \A i \in 1..Len(hp_items) : hp_items[i].header = ExactVariant(hp_items[i].name)

\* C30: Record::parse gives a revoked key only for a record whose p= tag is
\* absent or empty, and fails on a p= value that is not base64.
C30_InvalidKeyIsAnError ==
    sp_result # None =>
        /\ (Unwrap(sp_result).ok /\ Unwrap(sp_result).val.p = None)
              => (Unwrap(sp_choice).p = None \/ Unwrap(sp_choice).p = Some(<<>>))
        /\ (Unwrap(sp_choice).p # None /\ Base64Decode(Unwrap(Unwrap(sp_choice).p)) = None)
              => ~Unwrap(sp_result).ok

----------------------------------------------------------------------------
(* The builder calls of DKIMSigner in any order, then sign *)

\* DKIMSigner::new (lines 28-41)
DKIMSignerNew ==
    [a |-> "RsaSha256", private_key |-> None, sign_headers |-> <<>>,
     cb |-> "Relaxed", ch |-> "Relaxed", d |-> <<>>, s |-> <<>>, i |-> <<>>,
     l |-> FALSE, x |-> 0]

\* A builder call gives the signer next; none is made once sign has been called.
BuilderCall(next) ==
    /\ sg_signer # None
    /\ sg_sig = None
    /\ sg_signer' = Some(next)
    /\ UNCHANGED <<message, splitVars, classVars, parseVars,
                   sg_now, sg_sig, sg_header, sg_parsed, sg_verified>>

\* rsa_pem(private_key_pem) with the PEM of RSA key 1
RsaPemCall == BuilderCall([Signer EXCEPT !.private_key = Some([kind |-> "Rsa", id |-> 1])])

\* rsa(private_key_bytes) with the DER of RSA key 3
RsaCall == BuilderCall([Signer EXCEPT !.private_key = Some([kind |-> "Rsa", id |-> 3])])

\* ed25519(public_key_bytes, private_key_bytes) with Ed25519 key 2
Ed25519Call ==
    BuilderCall([Signer EXCEPT !.private_key = Some([kind |-> "Ed25519", id |-> 2]),
                               !.a = "Ed25519Sha256"])

\* algorithm(a)
AlgorithmSet ==
    \E a \in {"RsaSha1", "RsaSha256", "Ed25519Sha256"} : BuilderCall([Signer EXCEPT !.a = a])

\* expiration(x)
ExpirationSet == \E x \in {0, 100} : BuilderCall([Signer EXCEPT !.x = x])

\* body_length(l)
BodyLengthSet == \E l \in BOOLEAN : BuilderCall([Signer EXCEPT !.l = l])

\* header_canonicalization(ch)
HeaderCanonicalizationSet ==
    \E ch \in Canonicalizations : BuilderCall([Signer EXCEPT !.ch = ch])

\* body_canonicalization(cb)
BodyCanonicalizationSet ==
    \E cb \in Canonicalizations : BuilderCall([Signer EXCEPT !.cb = cb])

\* new().headers(["From"]).domain("ex.org").selector("sel"), and a message.
InitBuilder ==
    /\ sg_signer = Some([DKIMSignerNew EXCEPT !.sign_headers = <<FromName>>, !.d = ExOrg,
                                              !.s = Str(<<"s", "e", "l">>)])
    /\ message = MessageWith(<<FromName>>, Str(<<"h", "i">>) \o <<CR, LF>>)
    /\ sg_now = 1000
    /\ sg_sig = None
    /\ sg_header = None
    /\ sg_parsed = None
    /\ sg_verified = None
    /\ hi = HeaderIteratorNew
    /\ hi_items = <<>>
    /\ hi_stop = None
    /\ hp = HeaderParserNew
    /\ hp_items = <<>>
    /\ cl_name = 0
    /\ sp_choice = None
    /\ sp_header = <<>>
    /\ sp_result = None

NextBuilder ==
    \/ RsaPemCall
    \/ RsaCall
    \/ Ed25519Call
    \/ AlgorithmSet
    \/ ExpirationSet
    \/ BodyLengthSet
    \/ HeaderCanonicalizationSet
    \/ BodyCanonicalizationSet
    \/ SignCall

SpecBuilder == InitBuilder /\ [][NextBuilder]_vars

\* The key family of an algorithm.
KeyFamily(a) == IF a = "Ed25519Sha256" THEN "Ed25519" ELSE "Rsa"

\* C27: whatever builder calls were made, the a= of a Signature that sign
\* returns is of the family of the private key that computed its b.
C27_AlgorithmOfTheKeyFamily ==
    (sg_sig # None /\ Unwrap(sg_sig).ok) =>
        /\ Unwrap(Base64Decode(Signed.b))[1] = Unwrap(Signer.private_key).id
        /\ KeyFamily(Signed.a) = Unwrap(Signer.private_key).kind

----------------------------------------------------------------------------
(* The two forms that Signature::write gives of one Signature *)

\* The header canonicalized as a verifier canonicalizes the DKIM-Signature
\* header: simple, the header without its last CRLF; relaxed, the name in lower
\* case, no white space around the colon, every fold and run of white space
\* one space, no CRLF at the end.
CanonicalHeaderOf(ch, header) ==
    The({IF ch = "Relaxed" THEN HeaderRelaxed(h.name, h.value)
         ELSE WithoutFinalCrlf(HeaderSimple(h.name, h.value)) :
         h \in {CollectHeaders(header).headers[1]}})

\* C28: for both header canonicalizations and every Signature, what
\* write(.., false) writes is the canonicalization of what write(.., true) writes.
C28_HashFormIsCanonicalHeader ==
    sg_header # None =>
        SignatureWrite(Signed, FALSE) = CanonicalHeaderOf(Signed.ch, Unwrap(sg_header))

----------------------------------------------------------------------------
(* Verifying some time after signing, the message as it was or with bytes *)
(* appended, against the record of the key, a revoked one or another key   *)

\* The AUIDs: none, of the domain, of a subdomain, in angle brackets, of
\* another domain, of a domain that ends like the signing domain.
VerifiedAuids ==
    {<<>>,
     <<AT>> \o ExOrg,
     Str(<<"a", "@", "s", "u", "b", ".">>) \o ExOrg,
     Str(<<"<", "a", "@">>) \o ExOrg \o Str(<<">">>),
     <<AT>> \o OtherOrg,
     Str(<<"a", "@", "x">>) \o ExOrg}

\* The bodies signed: one that ends in CRLF, one that does not, one with
\* white space and an empty line at its end, none.
VerifiedBodies ==
    {Str(<<"h", "i">>) \o <<CR, LF>>,
     Str(<<"h", "i">>),
     Str(<<"a", " ", " ", "b", " ">>) \o <<CR, LF, CR, LF>>,
     <<>>}

\* What is appended to the message after signing.
Appended ==
    {<<>>, Str(<<"x">>), <<CR, LF>> \o Str(<<"-", "-", " ", "l", "i", "s", "t">>)}

\* The records: the one of the signer's key, a revoked one, one of another key.
RecordOf(kind) ==
    IF kind = "matching" THEN MatchingRecord
    ELSE IF kind = "revoked" THEN [p |-> None]
    ELSE [p |-> Some(7)]

InitVerify ==
    /\ \E later \in {0, 100, 101}, appended \in Appended,
          record \in {"matching", "revoked", "other"} :
          sp_choice = Some([later |-> later, appended |-> appended, record |-> record])
    /\ \E key \in KeysAndAlgorithms, i \in VerifiedAuids, x \in {0, 100}, l \in BOOLEAN,
          cb \in Canonicalizations, body \in VerifiedBodies :
          /\ key.a = "RsaSha1"
          /\ sg_signer = Some([a |-> key.a, private_key |-> key.private_key,
                               sign_headers |-> <<FromName>>, cb |-> cb, ch |-> "Relaxed",
                               d |-> ExOrg, s |-> Str(<<"s", "e", "l">>), i |-> i,
                               l |-> l, x |-> x])
          /\ message = MessageWith(<<FromName>>, body)
    /\ sp_header = <<>>
    /\ sp_result = None
    /\ sg_now = 1000
    /\ sg_sig = None
    /\ sg_header = None
    /\ sg_parsed = None
    /\ sg_verified = None
    /\ hi = HeaderIteratorNew
    /\ hi_items = <<>>
    /\ hi_stop = None
    /\ hp = HeaderParserNew
    /\ hp_items = <<>>
    /\ cl_name = 0

\* The header is put before the message, bytes are appended, and the whole is
\* verified against the record, some seconds after signing.
LaterVerifyCall ==
    /\ sg_header # None
    /\ sg_verified = None
    /\ \E c \in {Unwrap(sp_choice)} :
          sg_verified' = Some(VerifyMessage(Unwrap(sg_header) \o message \o c.appended,
                                            RecordOf(c.record), sg_now + c.later))
    /\ UNCHANGED <<message, splitVars, classVars, parseVars,
                   sg_signer, sg_now, sg_sig, sg_header, sg_parsed>>

NextVerify == SignCall \/ WriteHeaderCall \/ LaterVerifyCall

SpecVerify == InitVerify /\ [][NextVerify]_vars

\* The time of the verification.
VerifiedAt == sg_now + Unwrap(sp_choice).later

\* The signature verified has an x= and the time of the verification is after it.
IsExpired == Signed.x > 0 /\ VerifiedAt > Signed.x

\* C21: verify gives SignatureExpired for every signature with x > 0 that is
\* verified after x, whatever the body, the AUID and the record are, and never
\* gives it for a signature without x= or verified at x or before.
C21_ExpiredFirst ==
    sg_verified # None => (sg_verified = Some(Err("SignatureExpired")) <=> IsExpired)

\* An expired signature with an AUID of another domain, on a message with
\* bytes appended, verified against a revoked record, was found expired; and
\* so x is the time of signing plus the expiration.
C21_Witness ==
    /\ sg_verified = Some(Err("SignatureExpired"))
    /\ Signed.x = sg_now + 100
    /\ Signer.i = <<AT>> \o OtherOrg
    /\ Unwrap(sp_choice).appended # <<>>
    /\ Unwrap(sp_choice).record = "revoked"

\* The bytes of i after its last '@'.
AfterAt(i) ==
    The({IF ats = {} THEN i
         ELSE SubSeq(i, (CHOOSE k \in ats : \A other \in ats : other <= k) + 1, Len(i)) :
         ats \in {{k \in 1..Len(i) : i[k] = AT}}})

\* The domain is d or a subdomain of d, whatever the case of the letters.
IsOfDomain(domain, d) ==
    \/ EqIgnoreAsciiCase(domain, d)
    \/ /\ Len(domain) > Len(d) + 1
       /\ EqIgnoreAsciiCase(SubSeq(domain, Len(domain) - Len(d), Len(domain)), <<DOT>> \o d)

\* C22: verify gives FailedAUIDMatch for every signature that has not expired
\* and whose i is not empty and has after its '@' neither d nor a subdomain of
\* d, and never gives it when i is empty or has d or a subdomain of d there.
C22_AuidOfAnotherDomain ==
    (sg_verified # None /\ ~IsExpired) =>
        (sg_verified = Some(Err("FailedAUIDMatch"))
            <=> (Signed.i # <<>> /\ ~IsOfDomain(AfterAt(Signed.i), Signed.d)))

\* The body of the message signed.
SignedBody == CollectHeaders(message).body

EndsInCrlf(b) == Len(b) >= 2 /\ b[Len(b) - 1] = CR /\ b[Len(b)] = LF

\* The message as it was signed verifies, against the same record at the same time.
VerifiesAsSigned ==
    VerifyMessage(Unwrap(sg_header) \o message, RecordOf(Unwrap(sp_choice).record), VerifiedAt)
        = Ok("Verified")

\* C23 as stated: with l= above 0, whatever bytes are appended to a message
\* that verifies, it still verifies.
C23_AppendedBytesVerify ==
    (sg_verified # None /\ Signed.l > 0 /\ VerifiesAsSigned)
        => sg_verified = Some(Ok("Verified"))

\* C23: with l= above 0, a message that verifies and whose body ends in CRLF
\* still verifies whatever bytes are appended; when its body does not end in
\* CRLF, it verifies or the body hash does not match.
C23_AppendedAfterCrlfVerify ==
    (sg_verified # None /\ Signed.l > 0 /\ VerifiesAsSigned) =>
        /\ EndsInCrlf(SignedBody) => sg_verified = Some(Ok("Verified"))
        /\ sg_verified \in {Some(Ok("Verified")), Some(Err("BodyHashMismatch"))}

\* A message signed with l=, its body ending in CRLF, was verified with a
\* line appended that was not signed.
C23_Witness ==
    /\ sg_verified = Some(Ok("Verified"))
    /\ Signed.l = 4
    /\ EndsInCrlf(SignedBody)
    /\ Len(Unwrap(sp_choice).appended) > 1

====
